---- MODULE Spec2Model ----
(***************************************************************************)
(* Verification model of the authentication / connection-registry core:   *)
(*   - ConnectionManager            (app/initialize/websocket.py)          *)
(*   - TokenService, CookieService  (app/modules/auth/security.py)         *)
(*   - AuthMiddleware               (app/middlewares/auth_middleware.py)   *)
(* The registry runs on one asyncio event loop: a coroutine runs          *)
(* atomically from one await to the next, so every action below is the    *)
(* code between two suspension points.                                    *)
(***************************************************************************)
EXTENDS Integers, Sequences, FiniteSets, TLC

\* ------------------------------------------------------------------ bounds
NumUsers == 2
NumHandles == 3
NumTasks == 2

Users == 1..NumUsers
Handles == 1..NumHandles
Tasks == 1..NumTasks

NoUser == 0
NoHandle == 0

VARIABLES
    connections,   \* ConnectionManager.connections: the dict in insertion
                   \* order, a sequence of [user, ws]; ws is the set object
    tasks          \* the running send_to_user / broadcast /
                   \* push_task_to_users coroutines

regvars == <<connections, tasks>>

\* A coroutine and its local variables.  A local that refers to a set object
\* (websockets in send_to_user, the values of the items() snapshot in
\* broadcast) is kept as the user whose set it was taken from and "live":
\* the object is still the one stored under that key.  An object leaves the
\* dict only when disconnect has emptied it, so an object that is not live
\* is empty for ever.  sent, resent, acked and disconnected describe the
\* send_to_user or broadcast call in progress: the handles send_text was
\* awaited on, those it was awaited on more than once, those that took the
\* message, those that raised (the local set disconnected of send_to_user).
IdleTask ==
    [pc |-> "idle", op |-> "none", user |-> NoUser, users |-> <<>>,
     live |-> FALSE, used |-> 0, pending |-> {}, cur |-> NoHandle,
     disconnected |-> {}, items |-> <<>>, sent |-> {}, resent |-> {},
     acked |-> {}, ret |-> "none"]

\* ------------------------------------------------------- dict / set helpers
Min(S) == CHOOSE x \in S : \A y \in S : x <= y

RemoveAt(s, i) == [j \in 1..(Len(s) - 1) |-> IF j < i THEN s[j] ELSE s[j + 1]]

\* user_id in self.connections
HasKey(c, u) == \E i \in DOMAIN c : c[i].user = u

\* self.connections[user_id]
SetOf(c, u) == c[CHOOSE i \in DOMAIN c : c[i].user = u].ws

\* The content of the set object a local variable refers to.
Deref(c, u, live) == IF live THEN SetOf(c, u) ELSE {}

\* get_online_users
get_online_users == [i \in DOMAIN connections |-> connections[i].user]

RECURSIVE SumLen(_)
SumLen(c) == IF c = <<>> THEN 0 ELSE Cardinality(Head(c).ws) + SumLen(Tail(c))

\* count_all_connections
count_all_connections == SumLen(connections)

\* ------------------------------------------------- connect / disconnect
\* connect, after "await websocket.accept()" has returned: the key is
\* created with a new set() when absent, then the handle is added.  Nothing
\* looks at the sets of the other users.
ConnectOp(c, ws, u) ==
    IF ~HasKey(c, u)
    THEN Append(c, [user |-> u, ws |-> {ws}])
    ELSE [i \in DOMAIN c |->
            IF c[i].user = u THEN [c[i] EXCEPT !.ws = @ \cup {ws}] ELSE c[i]]

\* disconnect without "del self.connections[user_id]"
DisconnectKeepEmpty(c, ws) ==
    LET idx == {i \in DOMAIN c : ws \in c[i].ws}
    IN  IF idx = {} THEN c
        ELSE [c EXCEPT ![Min(idx)].ws = @ \ {ws}]

\* disconnect: the first entry (dict order) whose set holds ws loses it;
\* an emptied set is deleted from the dict; then break.
DisconnectOp(c, ws) ==
    LET idx == {i \in DOMAIN c : ws \in c[i].ws}
    IN  IF idx = {} THEN c
        ELSE LET i == Min(idx)
             IN  IF c[i].ws = {ws} THEN RemoveAt(c, i)
                 ELSE [c EXCEPT ![i].ws = @ \ {ws}]

\* for ws in disconnected: self.disconnect(ws)
RECURSIVE DisconnectAll(_, _)
DisconnectAll(c, S) ==
    IF S = {} THEN c
    ELSE LET ws == CHOOSE x \in S : TRUE
         IN  DisconnectAll(DisconnectOp(c, ws), S \ {ws})

\* ------------------------------------------------------------ coroutines
IsWalk(k) ==
    k.pc = "suspended" /\ k.op \in {"send_to_user", "push_task_to_users"}

\* What a change of the dict from c to d (by disconnect) means for the
\* locals of the suspended coroutines: the object of a deleted key is no
\* longer live, and a set iterator never yields a discarded handle.
Settle(tk, d) ==
    [t \in Tasks |->
        LET k == tk[t]
            lv == k.live /\ HasKey(d, k.user)
        IN  [k EXCEPT
               !.live = lv,
               !.pending = IF IsWalk(k) THEN @ \cap Deref(d, k.user, lv) ELSE @,
               !.items = [i \in DOMAIN k.items |->
                            [k.items[i] EXCEPT !.live = @ /\ HasKey(d, k.items[i].user)]]]]

\* The coroutine ends: its caller gets the value it returned or the
\* exception it raised; the references it held are dropped.
Finished(k, how, val) ==
    [k EXCEPT !.pc = how, !.ret = val, !.live = FALSE, !.used = 0,
              !.pending = {}, !.cur = NoHandle, !.items = <<>>, !.users = <<>>]

\* send_to_user lines 28-29 inside the loop of push_task_to_users: a user
\* without key returns False at once, without suspending.
RECURSIVE SkipOffline(_, _)
SkipOffline(c, us) ==
    IF us = <<>> THEN <<>>
    ELSE IF HasKey(c, Head(us)) THEN us
    ELSE SkipOffline(c, Tail(us))

\* for ws in set(websockets): an entry of the snapshot whose set is empty by
\* now has an empty inner loop.
RECURSIVE SkipEmpty(_, _)
SkipEmpty(c, its) ==
    IF its = <<>> THEN <<>>
    ELSE IF Deref(c, Head(its).user, Head(its).live) # {} THEN its
    ELSE SkipEmpty(c, Tail(its))

\* send_to_user from its first line up to the first "await ws.send_text":
\* websockets = self.connections[user_id] (a reference), disconnected = set(),
\* the set iterator is created (it records the size of the set) and yields
\* its first element.  With no user left the caller returns val.
EnterUsers(t, k, c, us, val) ==
    LET rest == SkipOffline(c, us)
    IN  IF rest = <<>>
        THEN /\ tasks' = Settle([tasks EXCEPT ![t] = Finished(k, "returned", val)], c)
             /\ connections' = c
        ELSE LET u == Head(rest)
             IN  \E ws \in SetOf(c, u) :
                    /\ tasks' = Settle([tasks EXCEPT ![t] =
                            [k EXCEPT !.pc = "suspended", !.user = u,
                                      !.users = Tail(rest), !.live = TRUE,
                                      !.used = Cardinality(SetOf(c, u)),
                                      !.pending = SetOf(c, u) \ {ws},
                                      !.cur = ws, !.disconnected = {},
                                      !.sent = {ws}, !.acked = {}]], c)
                    /\ connections' = c

\* The outer loop of broadcast over the items() snapshot, up to the first
\* send_text of the next non-empty copy set(websockets).
EnterItems(t, k, c, its) ==
    LET rest == SkipEmpty(c, its)
    IN  IF rest = <<>>
        THEN /\ tasks' = Settle([tasks EXCEPT ![t] = Finished(k, "returned", "None")], c)
             /\ connections' = c
        ELSE LET copy == Deref(c, Head(rest).user, Head(rest).live)
             IN  \E ws \in copy :
                    /\ tasks' = Settle([tasks EXCEPT ![t] =
                            [k EXCEPT !.pc = "suspended", !.user = Head(rest).user,
                                      !.items = Tail(rest),
                                      !.pending = copy \ {ws},
                                      !.cur = ws, !.sent = @ \cup {ws},
                                      !.resent = @ \cup ({ws} \cap k.sent)]], c)
                    /\ connections' = c

\* The permutations of the subsets of Users: the lists push_task_to_users
\* is called with.
UserLists ==
    {us \in UNION {[1..n -> Users] : n \in 0..NumUsers} :
        \A i, j \in DOMAIN us : i # j => us[i] # us[j]}

\* ---------------------------------------------------------------- actions
\* connect(websocket, user_id), "await websocket.accept()" returns.  A set
\* iterator walking the same set object may or may not come across the new
\* element, depending on the slot it lands in (a handle it has yielded
\* already goes back to a slot the walk has passed).
Connect(ws, u) ==
    LET walkers == {t \in Tasks :
                        /\ IsWalk(tasks[t])
                        /\ tasks[t].user = u
                        /\ tasks[t].live
                        /\ ws \notin SetOf(connections, u)
                        /\ ws \notin tasks[t].sent}
    IN  /\ connections' = ConnectOp(connections, ws, u)
        /\ \E seen \in SUBSET walkers :
              tasks' = [t \in Tasks |->
                          IF t \in seen
                          THEN [tasks[t] EXCEPT !.pending = @ \cup {ws}]
                          ELSE tasks[t]]

\* connect(websocket, user_id), "await websocket.accept()" raises: the
\* exception leaves connect before it has touched the mapping.
ConnectRefused(ws, u) ==
    /\ ws \in Handles /\ u \in Users
    /\ UNCHANGED regvars

\* disconnect(websocket), called by the owner of the handle
Disconnect(ws) ==
    /\ connections' = DisconnectOp(connections, ws)
    /\ tasks' = Settle(tasks, DisconnectOp(connections, ws))

\* send_to_user(user_id, message) is called
SendStart(t, u) ==
    /\ tasks[t].pc = "idle"
    /\ LET k == [IdleTask EXCEPT !.op = "send_to_user", !.user = u]
       IN  EnterUsers(t, k, connections, <<u>>, "False")

\* push_task_to_users(users, message) is called
PushStart(t, us) ==
    /\ tasks[t].pc = "idle"
    /\ LET k == [IdleTask EXCEPT !.op = "push_task_to_users"]
       IN  EnterUsers(t, k, connections, us, "None")

\* "await ws.send_text(...)" of send_to_user ends (ok: it returned; ~ok: it
\* raised, the handle joins disconnected), then the for statement asks the
\* set iterator for the next element.  The iterator raises RuntimeError
\* ("Set changed size during iteration"), outside the try, when the size of
\* the set differs from the size it recorded; exhausted, the disconnected
\* handles are disconnected and send_to_user returns True.
SendResume(t, ok) ==
    /\ IsWalk(tasks[t])
    /\ LET k0 == tasks[t]
           k == IF ok THEN [k0 EXCEPT !.acked = @ \cup {k0.cur}]
                ELSE [k0 EXCEPT !.disconnected = @ \cup {k0.cur}]
       IN  IF Cardinality(Deref(connections, k.user, k.live)) # k.used
           THEN /\ tasks' = [tasks EXCEPT ![t] = Finished(k, "raised", "RuntimeError")]
                /\ UNCHANGED connections
           ELSE IF k.pending # {}
           THEN /\ \E ws \in k.pending :
                      tasks' = [tasks EXCEPT ![t] =
                          [k EXCEPT !.pending = @ \ {ws}, !.cur = ws,
                                    !.sent = @ \cup {ws}]]
                /\ UNCHANGED connections
           ELSE EnterUsers(t, k,
                           DisconnectAll(connections, k.disconnected), k.users,
                           IF k.op = "send_to_user" THEN "True" ELSE "None")

\* broadcast(message) is called: list(self.connections.items())
BroadcastStart(t) ==
    /\ tasks[t].pc = "idle"
    /\ LET k == [IdleTask EXCEPT !.op = "broadcast"]
           its == [i \in DOMAIN connections |->
                      [user |-> connections[i].user, live |-> TRUE]]
       IN  EnterItems(t, k, connections, its)

\* "await ws.send_text(...)" of broadcast ends; a failure disconnects the
\* handle at once; the loops go on over the copies.
BroadcastResume(t, ok) ==
    /\ tasks[t].pc = "suspended"
    /\ tasks[t].op = "broadcast"
    /\ LET k0 == tasks[t]
           k == IF ok THEN [k0 EXCEPT !.acked = @ \cup {k0.cur}]
                ELSE [k0 EXCEPT !.disconnected = @ \cup {k0.cur}]
           c == IF ok THEN connections ELSE DisconnectOp(connections, k0.cur)
       IN  IF k.pending # {}
           THEN /\ \E ws \in k.pending :
                      tasks' = Settle([tasks EXCEPT ![t] =
                          [k EXCEPT !.pending = @ \ {ws}, !.cur = ws,
                                    !.sent = @ \cup {ws},
                                    !.resent = @ \cup ({ws} \cap k.sent)]], c)
                /\ connections' = c
           ELSE EnterItems(t, k, c, Settle([tasks EXCEPT ![t] = k], c)[t].items)

\* The caller has taken the result of a finished call.
Reap(t) ==
    /\ tasks[t].pc \in {"returned", "raised"}
    /\ tasks' = [tasks EXCEPT ![t] = IdleTask]
    /\ UNCHANGED connections

RegInit ==
    /\ connections = <<>>
    /\ tasks = [t \in Tasks |-> IdleTask]

\* The steps of the registry with the callers T of send_to_user, broadcast
\* and push_task_to_users.
RegStep(T) ==
    \/ \E ws \in Handles, u \in Users : Connect(ws, u)
    \/ \E ws \in Handles, u \in Users : ConnectRefused(ws, u)
    \/ \E ws \in Handles : Disconnect(ws)
    \/ \E t \in T, u \in Users : SendStart(t, u)
    \/ \E t \in T, us \in UserLists : PushStart(t, us)
    \/ \E t \in T, ok \in BOOLEAN : SendResume(t, ok)
    \/ \E t \in T : BroadcastStart(t)
    \/ \E t \in T, ok \in BOOLEAN : BroadcastResume(t, ok)
    \/ \E t \in T : Reap(t)

RegNext == RegStep(Tasks)

\* One caller: the calls of task 1, one after the other.
OneCaller == {1}


\* ----------------------------------------------------- registry properties
Registered(c, h) == \E i \in DOMAIN c : h \in c[i].ws

OwnersOf(c, h) == {i \in DOMAIN c : h \in c[i].ws}

\* C1: after any interleaving of connect, disconnect, send_to_user,
\* broadcast and push_task_to_users, every key of the connections mapping
\* maps to a set with at least one handle (a user is a key exactly when it
\* has a handle), and a user is a key at most once.
C1_KeyIffNonEmpty ==
    /\ \A i \in DOMAIN connections : connections[i].ws # {}
    /\ \A i, j \in DOMAIN connections :
          connections[i].user = connections[j].user => i = j

\* A send_to_user call has had failures, has disconnected the failed
\* handles on its way out, and that removed the last key of the mapping.
C1_Witness ==
    \E t \in Tasks :
        /\ tasks[t].pc = "returned"
        /\ tasks[t].op = "send_to_user"
        /\ tasks[t].disconnected # {}
        /\ connections = <<>>

\* C2: in every reachable state each connection handle is a member of at
\* most one user's set.
C2_SingleOwner ==
    \A h \in Handles : Cardinality(OwnersOf(connections, h)) <= 1

\* A send_to_user call returns in this step.
SendReturns(t) ==
    /\ tasks[t].pc = "suspended"
    /\ tasks'[t].pc = "returned"
    /\ tasks'[t].op = "send_to_user"

\* What C3 says of the step in which send_to_user returns after its loop:
\* it returns True, no handle whose delivery failed is registered any more,
\* and the handles that took the message are as registered as before.
ReturnsPruned(t) ==
    /\ tasks'[t].ret = "True"
    /\ \A h \in tasks'[t].disconnected : ~Registered(connections', h)
    /\ \A h \in tasks'[t].acked :
          Registered(connections, h) => Registered(connections', h)

\* C3: a delivery failure does not stop send_to_user: when the call returns
\* it returns True, every handle whose delivery failed is no longer
\* registered and the handles that accepted the message stay registered;
\* the call returns False exactly when the user has no key when it is called.
C3_FailedPrunedOthersKept ==
    [][\A t \in Tasks :
          /\ SendReturns(t) => ReturnsPruned(t)
          /\ (tasks[t].pc = "idle" /\ tasks'[t].op = "send_to_user")
                => ((tasks'[t].pc = "returned" /\ tasks'[t].ret = "False")
                        <=> ~HasKey(connections, tasks'[t].user))]_regvars

\* The same statement for the calls that return while no handle is in the
\* sets of two users: C3 fails only through the double registration of C2.
C3_HoldsWithSingleOwners ==
    [][\A t \in Tasks :
          (SendReturns(t) /\ C2_SingleOwner) => ReturnsPruned(t)]_regvars

\* C4: send_to_user and broadcast never fail to their caller.
C4_NeverRaises ==
    \A t \in Tasks : tasks[t].pc # "raised"

\* broadcast walks copies (list(...), set(...)): it never raises.
BroadcastNeverRaises ==
    \A t \in Tasks : tasks[t].op = "broadcast" => tasks[t].pc # "raised"

\* ------------------------------------------------------ delivery history
VARIABLES
    whole,    \* per call: the handles registered ever since it was called
    calls,    \* the send_to_user / broadcast calls made so far
    msg,      \* per call: the number of its message (the calls in call order)
    inbox     \* per handle: the messages send_text was awaited with, in order

histvars == <<whole, calls, msg, inbox>>

HistInit ==
    /\ whole = [t \in Tasks |-> {}]
    /\ calls = 0
    /\ msg = [t \in Tasks |-> 0]
    /\ inbox = [h \in Handles |-> <<>>]

AllRegistered(c) == UNION {c[i].ws : i \in DOMAIN c}

\* The handles registered before and after a step of a call of task t that
\* have been registered ever since the call was made.
Whole(t) ==
    IF tasks[t].pc = "idle"
    THEN AllRegistered(connections) \cap AllRegistered(connections')
    ELSE whole[t] \cap AllRegistered(connections')

\* whole after a step of the registry; it is kept while the call is suspended.
WholeStep ==
    whole' = [t \in Tasks |->
                IF tasks'[t].pc = "suspended" THEN Whole(t) ELSE {}]

\* The call of task t begins in this step: its message gets the next number,
\* and the handle it awaits send_text on gets the message.
Began(t) ==
    /\ calls' = calls + 1
    /\ msg' = [msg EXCEPT ![t] = calls + 1]
    /\ inbox' = IF tasks'[t].pc = "suspended"
                THEN [inbox EXCEPT ![tasks'[t].cur] = Append(@, calls + 1)]
                ELSE inbox

\* The call of task t goes on in this step: the handle it awaits send_text
\* on next, if any, gets its message.
Moved(t) ==
    /\ inbox' = IF tasks'[t].pc = "suspended"
                THEN [inbox EXCEPT ![tasks'[t].cur] = Append(@, msg[t])]
                ELSE inbox
    /\ UNCHANGED <<calls, msg>>

\* The caller takes the result; the inboxes are read and emptied once no
\* call is in progress.
Taken(t) ==
    /\ inbox' = IF \A x \in Tasks : tasks'[x].pc = "idle"
                THEN [h \in Handles |-> <<>>] ELSE inbox
    /\ msg' = [msg EXCEPT ![t] = 0]
    /\ UNCHANGED calls

\* A broadcast call returns in this step.
BroadcastReturns(t) ==
    /\ tasks[t].pc = "suspended"
    /\ tasks[t].op = "broadcast"
    /\ tasks'[t].pc = "returned"

\* A send_text of a broadcast call raises in this step.
BroadcastFails(t) ==
    /\ tasks[t].pc = "suspended"
    /\ tasks[t].op = "broadcast"
    /\ tasks'[t].disconnected # tasks[t].disconnected

\* C15: when broadcast returns it has awaited send_text once, and not more
\* than once, on every handle that was registered during the whole call,
\* whichever user it belongs to; after it has returned it sends to no handle;
\* a handle whose send_text raised is removed from the registry in that step
\* (and the loop goes on to the handles that remain).
C15_BroadcastOncePerHandle ==
    [][\A t \in Tasks :
          /\ BroadcastReturns(t) =>
                \A h \in Whole(t) :
                    h \in tasks'[t].sent /\ h \notin tasks'[t].resent
          /\ BroadcastFails(t) => ~Registered(connections', tasks[t].cur)
          /\ (tasks[t].pc = "returned" /\ tasks'[t].pc = "returned")
                => tasks'[t].sent = tasks[t].sent]_regvars

\* ======================================================================
\* Tokens, cookies and get_current_user
\* ======================================================================
\* -- bounds: the configuration the services run with and the size of a run
access_token_expires_in_minutes == 1
refresh_token_expires_in_days == 1
SecsPerMinute == 1      \* the calendar, scaled down
MinutesPerDay == 2
TicksPerSec == 2        \* the clock is finer than the whole seconds of iat/exp
NumSubjects == 2
MaxPairs == 3           \* token pairs minted in a run

Subjects == 1..NumSubjects
AccessTTL == access_token_expires_in_minutes * SecsPerMinute
RefreshTTL == refresh_token_expires_in_days * MinutesPerDay * SecsPerMinute
MaxNow == (RefreshTTL + 1) * TicksPerSec

SECRET == "JWT_SECRET_KEY"
ALGORITHM == "HS256"

VARIABLES
    now,        \* datetime.now(tz=timezone.utc), in ticks
    nextJti,    \* the uuid4 values drawn so far
    minted,     \* the tokens TokenService has issued
    repo,       \* the ids of the users the repository holds
    rotCount,   \* per refresh token id: the rotations that yielded a pair
    req         \* the get_current_user call in progress

authvars == <<now, nextJti, minted, repo, rotCount, req>>

\* ----------------------------------------------------------- token codec
NoClaims == [sub |-> 0, role |-> "none", iat |-> 0, jti |-> 0, exp |-> 0]

\* The signature part: the MAC of header and payload under a key.
Sign(key, alg, payload) == [key |-> key, alg |-> alg, payload |-> payload]

NoSig == Sign("", "none", NoClaims)

\* jwt.encode(payload, key, algorithm)
Encode(payload, key, alg) ==
    [form |-> "jwt", alg |-> alg, payload |-> payload,
     sig |-> Sign(key, alg, payload)]

\* request.cookies.get(name, None) of an absent cookie
NoneToken == [form |-> "none", alg |-> "none", payload |-> NoClaims, sig |-> NoSig]

\* a string that is no header.payload.signature
Malformed == [form |-> "malformed", alg |-> "none", payload |-> NoClaims, sig |-> NoSig]

\* int(now.timestamp())
Timestamp(t) == t \div TicksPerSec

\* jwt.decode with verify_exp at the strict comparison exp < now
DecodeLate(tok, key, algorithms, t) ==
    IF tok.form # "jwt" THEN [err |-> "DecodeError", claims |-> NoClaims]
    ELSE IF tok.alg \notin algorithms
    THEN [err |-> "InvalidAlgorithmError", claims |-> NoClaims]
    ELSE IF tok.sig # Sign(key, tok.alg, tok.payload)
    THEN [err |-> "InvalidSignatureError", claims |-> NoClaims]
    ELSE IF tok.payload.exp * TicksPerSec < t
    THEN [err |-> "ExpiredSignatureError", claims |-> NoClaims]
    ELSE [err |-> "none", claims |-> tok.payload]

\* jwt.decode(token, key, algorithms=[...], options={"verify_exp": True}):
\* the token must be a str of three segments, its header algorithm one of
\* algorithms, its signature the one the key gives, and exp > now.
Decode(tok, key, algorithms, t) ==
    IF tok.form # "jwt" THEN [err |-> "DecodeError", claims |-> NoClaims]
    ELSE IF tok.alg \notin algorithms
    THEN [err |-> "InvalidAlgorithmError", claims |-> NoClaims]
    ELSE IF tok.sig # Sign(key, tok.alg, tok.payload)
    THEN [err |-> "InvalidSignatureError", claims |-> NoClaims]
    ELSE IF tok.payload.exp * TicksPerSec <= t
    THEN [err |-> "ExpiredSignatureError", claims |-> NoClaims]
    ELSE [err |-> "none", claims |-> tok.payload]

\* Subclasses of jwt.InvalidTokenError (ExpiredSignatureError is one too).
InvalidTokenErrors ==
    {"DecodeError", "InvalidAlgorithmError", "InvalidSignatureError",
     "ExpiredSignatureError"}

\* validate_token taking the algorithm from the header of the token
ValidateTokenAnyAlg(tok, t) ==
    LET d == Decode(tok, SECRET, {tok.alg}, t)
    IN  [raised |-> "none", claims |-> d.claims]

\* TokenService.validate_token at time t: the claims, or None (NoClaims)
\* for ExpiredSignatureError and InvalidTokenError; any other exception
\* would leave the method.
ValidateToken(tok, t) ==
    LET d == Decode(tok, SECRET, {ALGORITHM}, t)
    IN  IF d.err = "none" THEN [raised |-> "none", claims |-> d.claims]
        ELSE IF d.err = "ExpiredSignatureError" \/ d.err \in InvalidTokenErrors
        THEN [raised |-> "none", claims |-> NoClaims]
        ELSE [raised |-> d.err, claims |-> NoClaims]

\* generate_access_token with a token id that was drawn once for all calls
generate_access_token_stale_jti(sub, t, j) ==
    Encode([sub |-> sub, role |-> "USER", iat |-> Timestamp(t), jti |-> 1,
            exp |-> Timestamp(t + AccessTTL * TicksPerSec)], SECRET, ALGORITHM)

\* generate_access_token at time t with the uuid4 value j
generate_access_token(sub, t, j) ==
    Encode([sub |-> sub, role |-> "USER", iat |-> Timestamp(t), jti |-> j,
            exp |-> Timestamp(t + AccessTTL * TicksPerSec)], SECRET, ALGORITHM)

\* generate_refresh_token with the lifetime of the access token
generate_refresh_token_access_ttl(sub, t, j) ==
    Encode([sub |-> sub, role |-> "none", iat |-> Timestamp(t), jti |-> j,
            exp |-> Timestamp(t + AccessTTL * TicksPerSec)], SECRET, ALGORITHM)

\* generate_refresh_token at time t with the uuid4 value j: no role,
\* username or email
generate_refresh_token(sub, t, j) ==
    Encode([sub |-> sub, role |-> "none", iat |-> Timestamp(t), jti |-> j,
            exp |-> Timestamp(t + RefreshTTL * TicksPerSec)], SECRET, ALGORITHM)

\* generate_token_pair; j and j + 1 are the two uuid4 values drawn
generate_token_pair(sub, t, j) ==
    [access_token |-> generate_access_token(sub, t, j),
     refresh_token |-> generate_refresh_token(sub, t, j + 1)]

NoPair == [access_token |-> NoneToken, refresh_token |-> NoneToken]

\* TokenService.generate_refresh_tokens(refresh_token), the rotation: the
\* refresh token is validated; a valid one yields a new pair for its
\* subject, any other yields None (NoPair).  Nothing is kept of the tokens
\* that were consumed.
generate_refresh_tokens(tok, t, j) ==
    LET v == ValidateToken(tok, t)
    IN  IF v.claims = NoClaims THEN NoPair
        ELSE generate_token_pair(v.claims.sub, t, j)

\* What a client can put into a cookie: nothing, a malformed string, a token
\* it was issued, or a token it was issued altered: signed with another
\* secret, with "none" or another algorithm in the header, or with the
\* expiry pushed back under the old signature.
Tampers == {"asis", "other_secret", "alg_none", "other_alg", "later_exp"}

Forge(tok, how) ==
    CASE how = "asis" -> tok
      [] how = "other_secret" -> Encode(tok.payload, "guess", tok.alg)
      [] how = "alg_none" -> [tok EXCEPT !.alg = "none", !.sig = NoSig]
      [] how = "other_alg" -> Encode(tok.payload, SECRET, "HS512")
      [] how = "later_exp" -> [tok EXCEPT !.payload.exp = @ + RefreshTTL]

Presentable ==
    {NoneToken, Malformed} \cup {Forge(tok, how) : tok \in minted, how \in Tampers}

\* The cookies <<access_token, refresh_token>> of the requests tried: one of
\* the two is absent, or both are tokens the service issued.
CookieCases ==
    {<<acc, NoneToken>> : acc \in Presentable}
        \cup {<<NoneToken, ref>> : ref \in Presentable}
        \cup (minted \X minted)

\* ------------------------------------------------------------ cookies
NumReqs == 1            \* get_current_user calls in flight
Reqs == 1..NumReqs

\* An origin "scheme://host[:port]" is the triple of its parts; port 0 is
\* no port.
AppOrigin == <<"https", "app.test", 0>>
EvilOrigin == <<"https", "evil.test", 0>>
Star == <<"*">>
NoHeader == <<>>

\* settings.ALLOW_ORIGINS after split_origins, always a list: the default
\* "*" or the origin of the application.
AllowLists == {<<Star>>, <<AppOrigin>>}

VARIABLES
    ALLOW_ORIGINS   \* settings.ALLOW_ORIGINS of the running process

\* The Origin and Referer headers of the requests tried.
HeaderCases ==
    {[origin |-> AppOrigin, referer |-> NoHeader],
     [origin |-> EvilOrigin, referer |-> NoHeader],
     [origin |-> NoHeader, referer |-> <<"https", "app.test", 0, "/page">>],
     [origin |-> NoHeader, referer |-> <<"https", "evil.test", 8443, "/x">>],
     [origin |-> NoHeader, referer |-> NoHeader]}

\* The attributes of Settings that the middleware reads.
SettingsFields ==
    {"ALLOW_ORIGINS", "ACCESS_TOKEN_EXPIRES_IN_MINUTES",
     "REFRESH_TOKEN_EXPIRES_IN_DAYS", "JWT_SECRET_KEY", "JWT_ALGORITHM"}

\* error_exception_handler(app_status, data=None) called with the keyword
\* arguments kw: an HTTPException to raise, or the TypeError of the call.
error_exception_handler(app_status, kw) ==
    IF kw \subseteq {"data"}
    THEN [exc |-> "HTTPException", status |-> app_status]
    ELSE [exc |-> "TypeError", status |-> "none"]

\* What the application answers to an exception that leaves the endpoint:
\* an HTTPException by its status, any other by general_exception_handler.
ResponseStatus(e) ==
    IF e.exc = "HTTPException" THEN e.status ELSE "BAD_REQUEST"

\* get_origin_from_request: the Origin header, else the origin of the
\* Referer, else settings.ALLOW_ORIGINS.split(",")[0], which a list has not.
get_origin_from_request(h) ==
    IF h.origin # NoHeader THEN [exc |-> "none", origin |-> h.origin]
    ELSE IF h.referer # NoHeader
    THEN [exc |-> "none", origin |-> SubSeq(h.referer, 1, 3)]
    ELSE [exc |-> "AttributeError", origin |-> NoHeader]

SeqToSet(q) == {q[i] : i \in DOMAIN q}

\* is_allowed_origin letting a request without origin through
is_allowed_origin_or_absent(origin, allowed_origins) ==
    \/ origin = NoHeader
    \/ origin \in SeqToSet(allowed_origins) \/ Star \in SeqToSet(allowed_origins)

is_allowed_origin(origin, allowed_origins) ==
    origin \in SeqToSet(allowed_origins) \/ Star \in SeqToSet(allowed_origins)

\* set_cookie on the cookies already set on the response
set_cookie(cookies, key, request_origin) ==
    IF is_allowed_origin(request_origin, ALLOW_ORIGINS)
    THEN [exc |-> "none", cookies |-> cookies \cup {key}]
    ELSE [exc |-> "HTTPException", cookies |-> cookies]

\* ---------------------------------------------------- get_current_user
\* The locals of a call: claims, refresh_token, tokens, origin, user; what
\* it did to the response; how it ended.  rot is what became of the refresh
\* token: "absent", "minted" or the error that rejected it.  tried are the
\* cookies set_cookie was called for, cookies those it has set on the
\* response object, cleared whether clear_cookie was called on it.
IdleReq ==
    [pc |-> "idle", path |-> "none", claims |-> NoClaims, refresh |-> NoneToken,
     rot |-> "none", tokens |-> NoPair, origin |-> NoHeader,
     cookies |-> {}, cleared |-> FALSE, cause |-> "none",
     outcome |-> "none", status |-> "none", user |-> 0,
     tried |-> {}, endpoint |-> "none"]

\* find_user_by_id: the user, or None (0)
find_user_by_id(users, id) == IF id \in users THEN id ELSE 0

\* "except Exception" of get_current_user, line 35: whatever was raised
\* inside, the call ends with what this raise statement raises.
Fail(k, cause) ==
    LET e == error_exception_handler("UNAUTHORIZED", {"headers"})
    IN  [k EXCEPT !.pc = "done", !.cause = cause, !.outcome = e.exc,
                  !.status = ResponseStatus(e)]

\* Lines 23-31 and 39-41 up to the first await; acc and ref are the cookies
\* access_token and refresh_token of the request.
GcuStart(r, acc, ref) ==
    /\ req[r].pc = "idle"
    /\ LET v == ValidateToken(acc, now)
       IN  req' = [req EXCEPT ![r] =
             IF v.raised # "none" THEN Fail(IdleReq, v.raised)
             ELSE IF v.claims # NoClaims
             THEN [IdleReq EXCEPT !.pc = "finding", !.path = "direct",
                                  !.claims = v.claims]
             ELSE IF ref.form = "none"
             THEN Fail([IdleReq EXCEPT !.rot = "absent"], "no refresh_token")
             ELSE [IdleReq EXCEPT !.pc = "rotating", !.path = "rotated",
                                  !.refresh = ref]]
    /\ UNCHANGED <<now, nextJti, minted, repo, rotCount>>

\* generate_refresh_tokens returns: lines 41-49 up to the second await; h
\* are the Origin and Referer headers of the request.
GcuRotated(r, h) ==
    /\ req[r].pc = "rotating"
    /\ LET k == req[r]
           tokens == generate_refresh_tokens(k.refresh, now, nextJti)
           v == ValidateToken(tokens.access_token, now)
           o == get_origin_from_request(h)
           j == k.refresh.payload.jti
       IN  IF tokens = NoPair
           THEN /\ req' = [req EXCEPT ![r] =
                      Fail([k EXCEPT !.cleared = TRUE, !.refresh = NoneToken,
                              !.rot = Decode(k.refresh, SECRET, {ALGORITHM}, now).err],
                           "no tokens")]
                /\ UNCHANGED <<nextJti, minted, rotCount>>
           ELSE /\ nextJti + 1 <= 2 * MaxPairs
                /\ nextJti' = nextJti + 2
                /\ minted' = minted \cup {tokens.access_token, tokens.refresh_token}
                /\ rotCount' = [rotCount EXCEPT ![j] = @ + 1]
                /\ req' = [req EXCEPT ![r] =
                      LET k2 == [k EXCEPT !.rot = "minted", !.tokens = tokens]
                      IN  IF v.claims = NoClaims THEN Fail(k2, "no claims")
                          ELSE IF o.exc # "none" THEN Fail(k2, o.exc)
                          ELSE [k2 EXCEPT !.pc = "finding", !.claims = v.claims,
                                          !.origin = o.origin]]
    /\ UNCHANGED <<now, repo>>

\* find_user_by_id returns: line 32, or lines 51-57.
GcuFound(r) ==
    /\ req[r].pc = "finding"
    /\ LET k == [req[r] EXCEPT !.user = find_user_by_id(repo, req[r].claims.sub)]
           c1 == set_cookie(k.cookies, "access_token", k.origin)
       IN  req' = [req EXCEPT ![r] =
             IF k.path = "direct"
             THEN [k EXCEPT !.pc = "done", !.outcome = "returned", !.status = "OK"]
             ELSE IF c1.exc # "none"
             THEN Fail([k EXCEPT !.tried = {"access_token"}], "FORBIDDEN")
             ELSE IF "REFRESH_TOKEN_EXPIRES_IN_MINUTES" \notin SettingsFields
             THEN Fail([k EXCEPT !.cookies = c1.cookies, !.tried = {"access_token"}],
                       "AttributeError")
             ELSE LET c2 == set_cookie(c1.cookies, "refresh_token", k.origin)
                  IN  [k EXCEPT !.pc = "done", !.cookies = c2.cookies,
                                !.tried = {"access_token", "refresh_token"},
                                !.outcome = "returned", !.status = "OK"]]
    /\ UNCHANGED <<now, nextJti, minted, repo, rotCount>>

\* The call is over; the next request may come.
GcuReap(r) ==
    /\ req[r].pc = "done"
    /\ req' = [req EXCEPT ![r] = IdleReq]
    /\ UNCHANGED <<now, nextJti, minted, repo, rotCount>>

\* A user of the repository is issued a pair (generate_token_pair).
Issue(sub) ==
    /\ sub \in repo
    /\ nextJti + 1 <= 2 * MaxPairs
    /\ LET tokens == generate_token_pair(sub, now, nextJti)
       IN  minted' = minted \cup {tokens.access_token, tokens.refresh_token}
    /\ nextJti' = nextJti + 2
    /\ UNCHANGED <<now, repo, rotCount, req>>

\* AuthService.delete_user
delete_user(u) ==
    /\ u \in repo
    /\ repo' = repo \ {u}
    /\ UNCHANGED <<now, nextJti, minted, rotCount, req>>

\* Time passes.
Tick ==
    /\ now < MaxNow
    /\ now' = now + 1
    /\ UNCHANGED <<nextJti, minted, repo, rotCount, req>>

AuthInit ==
    /\ now = 0
    /\ nextJti = 1
    /\ minted = {}
    /\ repo = Subjects
    /\ rotCount = [j \in 0..(2 * MaxPairs) |-> 0]
    /\ req = [r \in Reqs |-> IdleReq]

AuthNext ==
    \/ \E r \in Reqs : req[r].pc = "idle" /\ \E c \in CookieCases : GcuStart(r, c[1], c[2])
    \/ \E r \in Reqs, h \in HeaderCases : GcuRotated(r, h)
    \/ \E r \in Reqs : GcuFound(r)
    \/ \E r \in Reqs : GcuReap(r)
    \/ \E sub \in Subjects : Issue(sub)
    \/ \E u \in Subjects : delete_user(u)
    \/ Tick

\* ======================================================================
\* The registry called from parallel threads
\* ======================================================================
\* connect, disconnect, get_online_users and count_all_connections take no
\* lock.  Called from threads, a thread can be preempted between any two
\* bytecodes; a step below is one access to the dict or to a set object.
\* One thread calls connect, one calls disconnect, one reads.
VARIABLES threads

\* c: the connect thread; live: the set object its subscript yielded is
\*    still the one stored under the key.
\* d: the disconnect thread; items: the users of its list(items()) snapshot
\*    it has not looked at yet.
\* r: the reading thread; used, pos: the size the dict iterator recorded
\*    and the entries it has passed; acc: the sum so far; seen: the results
\*    the dict stood for at some moment since the call began.
\* The iterator of a dict that loses and gains entries goes on for ever:
\* the sums followed are those up to MaxSum.
MaxSum == 3

IdleThreads ==
    [c |-> [pc |-> "idle", ws |-> NoHandle, user |-> NoUser, live |-> FALSE],
     d |-> [pc |-> "idle", ws |-> NoHandle, user |-> NoUser, items |-> <<>>],
     r |-> [pc |-> "idle", op |-> "none", used |-> 0, pos |-> 0, acc |-> 0,
            seen |-> {}, val |-> 0]]

Completed == {"returned", "raised"}

\* self.connections[user_id] = set()
CreateKey(c, u) ==
    IF HasKey(c, u)
    THEN [i \in DOMAIN c |-> IF c[i].user = u THEN [c[i] EXCEPT !.ws = {}] ELSE c[i]]
    ELSE Append(c, [user |-> u, ws |-> {}])

\* <set object of u>.add(ws)
AddTo(c, u, ws) ==
    [i \in DOMAIN c |->
        IF c[i].user = u THEN [c[i] EXCEPT !.ws = @ \cup {ws}] ELSE c[i]]

\* websockets.discard(websocket)
RemoveFrom(c, u, ws) ==
    [i \in DOMAIN c |->
        IF c[i].user = u THEN [c[i] EXCEPT !.ws = @ \ {ws}] ELSE c[i]]

IndexOf(c, u) == CHOOSE i \in DOMAIN c : c[i].user = u

\* del self.connections[user_id]
DelKey(c, u) == RemoveAt(c, IndexOf(c, u))

\* What the reading thread's call could return for the dict c.
Reading(op, c) ==
    IF op = "count_all_connections" THEN SumLen(c)
    ELSE [i \in DOMAIN c |-> c[i].user]

\* The reading thread after a step that leaves the dict as c.
Observe(r, c) ==
    IF r.pc = "iter" THEN [r EXCEPT !.seen = @ \cup {Reading(r.op, c)}] ELSE r

\* connect(ws, u) of a new handle, accept() has returned:
\* "if user_id not in self.connections"
TConnect(ws, u) ==
    /\ threads.c.pc = "idle"
    /\ ~Registered(connections, ws)
    /\ threads' = [threads EXCEPT
          !.c = [pc |-> IF HasKey(connections, u) THEN "lookup" ELSE "create",
                 ws |-> ws, user |-> u, live |-> FALSE]]
    /\ UNCHANGED connections

\* "self.connections[user_id] = set()"
TConnectCreate ==
    /\ threads.c.pc = "create"
    /\ connections' = CreateKey(connections, threads.c.user)
    /\ threads' = [threads EXCEPT
          !.c.pc = "lookup",
          !.r = Observe(@, CreateKey(connections, threads.c.user))]

\* "self.connections[user_id]" of the add statement: KeyError when the key
\* is gone
TConnectLookup ==
    /\ threads.c.pc = "lookup"
    /\ threads' = [threads EXCEPT
          !.c.pc = IF HasKey(connections, threads.c.user) THEN "add" ELSE "raised",
          !.c.live = HasKey(connections, threads.c.user)]
    /\ UNCHANGED connections

\* ".add(websocket)" on the set object the subscript yielded
TConnectAdd ==
    /\ threads.c.pc = "add"
    /\ LET d == IF threads.c.live
                THEN AddTo(connections, threads.c.user, threads.c.ws)
                ELSE connections
       IN  /\ connections' = d
           /\ threads' = [threads EXCEPT !.c.pc = "returned", !.r = Observe(@, d)]

\* disconnect(ws): "list(self.connections.items())".  The caller of connect
\* has taken its result before.
TDisconnect(ws) ==
    /\ threads.d.pc = "idle"
    /\ threads.c.pc \notin Completed
    /\ threads' = [threads EXCEPT
          !.d = [pc |-> "scan", ws |-> ws, user |-> NoUser,
                 items |-> [i \in DOMAIN connections |-> connections[i].user]]]
    /\ UNCHANGED connections

\* the for statement takes the next item, "if websocket in websockets"
TDisconnectScan ==
    /\ threads.d.pc = "scan"
    /\ LET k == threads.d
       IN  threads' = [threads EXCEPT
              !.d = IF k.items = <<>> THEN [k EXCEPT !.pc = "returned"]
                    ELSE IF k.ws \in SetOf(connections, Head(k.items))
                    THEN [k EXCEPT !.pc = "remove", !.user = Head(k.items),
                                   !.items = <<>>]
                    ELSE [k EXCEPT !.items = Tail(k.items)]]
    /\ UNCHANGED connections

\* "websockets.discard(websocket)"
TDisconnectRemove ==
    /\ threads.d.pc = "remove"
    /\ LET d == RemoveFrom(connections, threads.d.user, threads.d.ws)
       IN  /\ connections' = d
           /\ threads' = [threads EXCEPT !.d.pc = "empty", !.r = Observe(@, d)]

\* "if not websockets"; otherwise break
TDisconnectEmpty ==
    /\ threads.d.pc = "empty"
    /\ threads' = [threads EXCEPT
          !.d.pc = IF SetOf(connections, threads.d.user) = {} THEN "del"
                   ELSE "returned"]
    /\ UNCHANGED connections

\* "del self.connections[user_id]", break: the set object leaves the dict
\* with whatever it holds by now; an iterator over the dict that has passed
\* the entry has one entry less behind it.
TDisconnectDel ==
    /\ threads.d.pc = "del"
    /\ LET u == threads.d.user
           d == DelKey(connections, u)
       IN  /\ connections' = d
           /\ threads' = [threads EXCEPT
                 !.d.pc = "returned",
                 !.c.live = @ /\ threads.c.user # u,
                 !.r = Observe([@ EXCEPT !.pos = IF /\ threads.r.pc = "iter"
                                                    /\ IndexOf(connections, u) <= @
                                                 THEN @ - 1 ELSE @], d)]

\* get_online_users(): "list(self.connections.keys())", one call into C
TGetOnlineUsers ==
    /\ threads.r.pc = "idle"
    /\ threads' = [threads EXCEPT
          !.r = [IdleThreads.r EXCEPT
                    !.pc = "returned", !.op = "get_online_users",
                    !.seen = {Reading("get_online_users", connections)},
                    !.val = Reading("get_online_users", connections)]]
    /\ UNCHANGED connections

\* count_all_connections(): "self.connections.values()", the generator and
\* sum are created; the iterator records the size of the dict
TCount ==
    /\ threads.r.pc = "idle"
    /\ threads' = [threads EXCEPT
          !.r = [IdleThreads.r EXCEPT
                    !.pc = "iter", !.op = "count_all_connections",
                    !.used = Len(connections),
                    !.seen = {Reading("count_all_connections", connections)}]]
    /\ UNCHANGED connections

\* sum asks the generator for the next len(ws_set): the dict iterator raises
\* RuntimeError ("dictionary changed size during iteration") when the size
\* differs from the one it recorded, yields the next entry, or is exhausted
\* and sum returns.
TCountNext ==
    /\ threads.r.pc = "iter"
    /\ threads.r.acc <= MaxSum
    /\ threads' = [threads EXCEPT
          !.r = IF Len(connections) # @.used
                THEN [IdleThreads.r EXCEPT !.pc = "raised", !.op = threads.r.op]
                ELSE IF @.pos < Len(connections)
                THEN [@ EXCEPT !.pos = @ + 1,
                               !.acc = @ + Cardinality(connections[threads.r.pos + 1].ws)]
                ELSE [IdleThreads.r EXCEPT
                         !.pc = "returned", !.op = threads.r.op,
                         !.seen = threads.r.seen, !.val = threads.r.acc]]
    /\ UNCHANGED connections

\* The callers take the results.
TReap ==
    /\ \E x \in {"c", "d", "r"} : threads[x].pc \in Completed
    /\ threads' = [x \in {"c", "d", "r"} |->
                      IF threads[x].pc \in Completed THEN IdleThreads[x]
                      ELSE threads[x]]
    /\ UNCHANGED connections

ThreadNext ==
    \/ \E ws \in Handles, u \in Users : TConnect(ws, u)
    \/ TConnectCreate
    \/ TConnectLookup
    \/ TConnectAdd
    \/ \E ws \in Handles : TDisconnect(ws)
    \/ TDisconnectScan
    \/ TDisconnectRemove
    \/ TDisconnectEmpty
    \/ TDisconnectDel
    \/ TGetOnlineUsers
    \/ TCount
    \/ TCountNext
    \/ TReap

\* ======================================================================
\* TokenService under every configuration its constructor takes
\* ======================================================================
\* __init__ stores the two lifetimes as they are given: any integers.
TTLRange == 2
Lifetimes == (-TTLRange)..TTLRange

VARIABLES
    service,    \* the TokenService object: the fields __init__ assigns
    claimset    \* the payload it encoded last

ttlvars == <<service, claimset>>

\* TokenService.__init__
TokenService(secret_key, algorithm, minutes, days) ==
    [secret_key |-> secret_key, algorithm |-> algorithm,
     access_token_expires_in_minutes |-> minutes,
     refresh_token_expires_in_days |-> days]

NoService == TokenService("", "", 0, 0)

\* str(user.id): the decimal digits of an id, "None" for the id of a User
\* that was never flushed
NoneId == 0
UserIds == Subjects \cup {NoneId}
str(id) == IF id = NoneId THEN <<"N", "o", "n", "e">> ELSE <<id>>

NoPayload == [sub |-> <<>>, kind |-> "none", iat |-> 0, jti |-> 0, exp |-> 0]

\* the payload of generate_access_token: exp_time = now + timedelta(minutes)
AccessPayload(self, id, t, j) ==
    [sub |-> str(id), kind |-> "access", iat |-> Timestamp(t), jti |-> j,
     exp |-> Timestamp(t + self.access_token_expires_in_minutes
                              * SecsPerMinute * TicksPerSec)]

\* the payload of generate_refresh_token: exp_time = now + timedelta(days)
RefreshPayload(self, id, t, j) ==
    [sub |-> str(id), kind |-> "refresh", iat |-> Timestamp(t), jti |-> j,
     exp |-> Timestamp(t + self.refresh_token_expires_in_days * MinutesPerDay
                              * SecsPerMinute * TicksPerSec)]

MintAccess(id) ==
    /\ claimset' = AccessPayload(service, id, now, 1)
    /\ UNCHANGED <<service, now>>

MintRefresh(id) ==
    /\ claimset' = RefreshPayload(service, id, now, 1)
    /\ UNCHANGED <<service, now>>

TTLTick ==
    /\ now < MaxNow
    /\ now' = now + 1
    /\ UNCHANGED <<service, claimset>>

TTLNext ==
    \/ \E id \in UserIds : MintAccess(id)
    \/ \E id \in UserIds : MintRefresh(id)
    \/ TTLTick

\* ======================================================================
\* CookieService.get_origin_from_request over requests and allow-lists
\* ======================================================================
Schemes == {"http", "https"}
Hosts == {"app.test", "evil.test"}
Ports == {0, 8443}
Paths == {"/", "/page"}

\* The values of an Origin header and of a Referer header (an absolute URL).
OriginValues == {<<sc, ho, po>> : sc \in Schemes, ho \in Hosts, po \in Ports}
RefererValues ==
    {<<sc, ho, po, pa>> : sc \in Schemes, ho \in Hosts, po \in Ports, pa \in Paths}

Requests ==
    [origin : OriginValues \cup {NoHeader}, referer : RefererValues \cup {NoHeader}]

\* v.split(","): the pieces of a string, here a sequence in which "," stands
\* for the comma, in their order
RECURSIVE split(_, _)
split(v, piece) ==
    IF v = <<>> THEN <<piece>>
    ELSE IF Head(v) = "," THEN <<piece>> \o split(Tail(v), <<>>)
    ELSE split(Tail(v), piece \o Head(v))

\* Settings.split_origins: a string is split at its commas, a list is kept
split_origins(v) == IF v.isstr THEN split(v.value, <<>>) ELSE v.value

\* ALLOW_ORIGINS as given in the environment or to Settings(...): the
\* default "*", one origin, two origins in one string, a list
OriginSettings ==
    {[isstr |-> TRUE, value |-> <<Star>>],
     [isstr |-> TRUE, value |-> <<AppOrigin>>],
     [isstr |-> TRUE, value |-> <<AppOrigin, ",", EvilOrigin>>],
     [isstr |-> FALSE, value |-> <<EvilOrigin, AppOrigin>>]}

VARIABLES
    origin_call   \* the last get_origin_from_request call: request and outcome

originvars == <<origin_call>>

NoOriginCall ==
    [request |-> [origin |-> NoHeader, referer |-> NoHeader],
     exc |-> "none", origin |-> NoHeader, called |-> FALSE]

ResolveOrigin(h) ==
    /\ origin_call' = [request |-> h,
                       exc |-> get_origin_from_request(h).exc,
                       origin |-> get_origin_from_request(h).origin,
                       called |-> TRUE]
    /\ UNCHANGED ALLOW_ORIGINS

OriginNext == \E h \in Requests : ResolveOrigin(h)

\* ======================================================================
\* KeycloakAdminService.create_user
\* ======================================================================
\* What the identity provider can answer: a status with or without the
\* headers and body fields the service reads, or nothing (a network error).
Success == {200, 201}
Errors == {400, 401, 403, 404, 409, 500, 503}
NetworkError == 0

\* Location headers: absent, empty, or the segments of its path
Locations ==
    {NoHeader, <<"">>, <<"admin", "users", "id7">>, <<"admin", "users", "id8">>}

\* user_data["username"] of the calls tried
Usernames == {"alice", "bob"}

\* token endpoint: status, whether the body has "access_token", and whether
\* its expires_in is beyond the 60 seconds the cache keeps in reserve
TokenResponses ==
    {[status |-> NetworkError, has_token |-> FALSE, lasting |-> FALSE]}
        \cup [status : Errors, has_token : {FALSE}, lasting : {FALSE}]
        \cup [status : Success, has_token : BOOLEAN, lasting : BOOLEAN]

\* POST users: status and Location header
UserResponses ==
    {[status |-> NetworkError, location |-> NoHeader]}
        \cup [status : Errors, location : {NoHeader}]
        \cup [status : Success, location : Locations]

VARIABLES
    admin_token,   \* self._admin_token with self._token_expires_at: "none",
                   \* "fresh" (usable from the cache) or "stale"
    create_call    \* the create_user call in progress

kcvars == <<admin_token, create_call>>

\* fetch, status, location: what the identity provider answered to this
\* call; fetches, posts: the requests the call has sent to it
IdleCreate ==
    [pc |-> "idle", username |-> "", fetch |-> "none",
     token_status |-> NetworkError, status |-> NetworkError,
     location |-> NoHeader, fetches |-> 0, posts |-> 0,
     outcome |-> "none", user_id |-> ""]

\* response.raise_for_status()
raise_for_status(status) == status \notin Success

\* the except clauses of create_user for an HTTPStatusError, with 409 not
\* told apart
StatusOutcomeNoConflict(status) ==
    IF status = 400 THEN "BAD_REQUEST"
    ELSE "ERROR_INTERNAL_SERVER_ERROR"

\* the except clauses of create_user for an HTTPStatusError
StatusOutcome(status) ==
    IF status = 409 THEN "ERROR_USER_ALREADY_EXISTS"
    ELSE IF status = 400 THEN "BAD_REQUEST"
    ELSE "ERROR_INTERNAL_SERVER_ERROR"

\* location_header.split("/")[-1]
LastSegment(location) == location[Len(location)]

\* _extract_user_id_from_location: "if not location_header" holds for an
\* absent and for an empty header
extract_user_id_from_location(location) ==
    IF location = NoHeader \/ location = <<"">>
    THEN [exc |-> "HTTPException", user_id |-> ""]
    ELSE [exc |-> "none", user_id |-> LastSegment(location)]

Raised(k, app_status) == [k EXCEPT !.pc = "done", !.outcome = app_status]

\* create_user is called: the payload is built, _make_admin_api_request
\* asks _get_admin_token, which answers from the cache or posts to the
\* token endpoint; with a token the users request is sent.
CreateUser(username) ==
    /\ create_call.pc = "idle"
    /\ create_call' =
          IF admin_token = "fresh"
          THEN [IdleCreate EXCEPT !.pc = "request", !.username = username,
                                  !.fetch = "cached", !.posts = 1]
          ELSE [IdleCreate EXCEPT !.pc = "fetch", !.username = username,
                                  !.fetches = 1]
    /\ UNCHANGED admin_token

\* The token endpoint has answered (or the request has failed).  Every
\* exception of _get_admin_token becomes the internal-server-error
\* HTTPException, which "except Exception" of create_user catches and
\* raises anew; only the unknown errors reset the cache.
TokenFetched(r) ==
    /\ create_call.pc = "fetch"
    /\ IF r.status # NetworkError /\ raise_for_status(r.status)
       THEN /\ create_call' =
                  Raised([create_call EXCEPT !.fetch = "failed",
                                             !.token_status = r.status],
                         "ERROR_INTERNAL_SERVER_ERROR")
            /\ UNCHANGED admin_token
       ELSE IF r.status = NetworkError \/ ~r.has_token
       THEN /\ create_call' =
                  Raised([create_call EXCEPT !.fetch = "failed",
                                             !.token_status = r.status],
                         "ERROR_INTERNAL_SERVER_ERROR")
            /\ admin_token' = "none"
       ELSE /\ create_call' = [create_call EXCEPT
                                 !.pc = "request", !.fetch = "fetched",
                                 !.token_status = r.status, !.posts = 1]
            /\ admin_token' = IF r.lasting THEN "fresh" ELSE "stale"

\* The users endpoint has answered (or the request has failed).
UserResponded(r) ==
    /\ create_call.pc = "request"
    /\ LET k == [create_call EXCEPT !.status = r.status, !.location = r.location]
           x == extract_user_id_from_location(r.location)
       IN  IF r.status = NetworkError
           THEN /\ create_call' = Raised(k, "ERROR_INTERNAL_SERVER_ERROR")
                /\ UNCHANGED admin_token
           ELSE IF raise_for_status(r.status)
           THEN /\ create_call' = Raised(k, StatusOutcome(r.status))
                /\ admin_token' = IF r.status \in {401, 403} THEN "none"
                                  ELSE admin_token
           ELSE /\ create_call' =
                      IF x.exc # "none"
                      THEN Raised(k, "ERROR_INTERNAL_SERVER_ERROR")
                      ELSE [k EXCEPT !.pc = "done", !.outcome = "returned",
                                     !.user_id = x.user_id]
                /\ UNCHANGED admin_token

\* Time passes beyond self._token_expires_at less 60 seconds.
TokenAges ==
    /\ admin_token = "fresh"
    /\ admin_token' = "stale"
    /\ UNCHANGED create_call

\* The caller takes the result.
CreateReap ==
    /\ create_call.pc = "done"
    /\ create_call' = IdleCreate
    /\ UNCHANGED admin_token

CreateNext ==
    \/ \E username \in Usernames : CreateUser(username)
    \/ \E r \in TokenResponses : TokenFetched(r)
    \/ \E r \in UserResponses : UserResponded(r)
    \/ TokenAges
    \/ CreateReap

\* ======================================================================
\* KeycloakAdminService: the admin token cache with its clock
\* ======================================================================
BufferSeconds == 60         \* timedelta(seconds=60) of the cache test
DefaultExpiresIn == 300     \* token_data.get("expires_in", 300)
ClockStep == 30             \* seconds between two readings of the clock
MaxClock == 150
NumCallers == 2             \* admin requests in flight
MaxTokens == 3              \* tokens the token endpoint issues in a run

Callers == 1..NumCallers
NoAdminToken == 0           \* self._admin_token is None

\* expires_in of a token response; NoExpiresIn: the key is absent
NoExpiresIn == -1
ExpiresIn == {NoExpiresIn, 30, 60, 90, 120}

\* token endpoint: status, whether the body has "access_token", expires_in
AdminTokenResponses ==
    {[status |-> NetworkError, has_token |-> FALSE, expires_in |-> NoExpiresIn]}
        \cup [status : {401, 500}, has_token : {FALSE}, expires_in : {NoExpiresIn}]
        \cup [status : {200}, has_token : {FALSE}, expires_in : {NoExpiresIn}]
        \cup [status : {200}, has_token : {TRUE}, expires_in : ExpiresIn]

\* the statuses of an admin API response that are told apart
AdminStatuses == {NetworkError, 201, 401, 403, 409}

VARIABLES
    clock,          \* datetime.now(timezone.utc), in seconds
    cache,          \* self._admin_token and self._token_expires_at
    nextToken,      \* the next token the token endpoint issues
    rejected,       \* the tokens an admin API request was refused with
    admin_calls     \* per caller: the _make_admin_api_request call

tkvars == <<clock, cache, nextToken, rejected, admin_calls>>

\* token: the local token; source: "cache" or "fetch"; status: the answer
IdleAdminCall ==
    [pc |-> "idle", token |-> NoAdminToken, source |-> "none",
     status |-> NetworkError, outcome |-> "none"]

\* if self._admin_token and self._token_expires_at > now + 60 seconds
CacheUsable(k, t) ==
    k.token # NoAdminToken /\ k.expires_at > t + BufferSeconds

\* _make_admin_api_request is called: _get_admin_token answers from the
\* cache, and the request is sent with that token, or posts to the token
\* endpoint
AdminRequest(c) ==
    /\ admin_calls[c].pc = "idle"
    /\ admin_calls' = [admin_calls EXCEPT ![c] =
          IF CacheUsable(cache, clock)
          THEN [IdleAdminCall EXCEPT !.pc = "requesting", !.token = cache.token,
                                     !.source = "cache"]
          ELSE [IdleAdminCall EXCEPT !.pc = "fetching"]]
    /\ UNCHANGED <<clock, cache, nextToken, rejected>>

\* The token endpoint answers (lines 70-87): an error status raises and
\* leaves the cache; any other exception resets self._admin_token; a token
\* is stored with now + expires_in and the request is sent with it.
AdminTokenFetched(c, r) ==
    /\ admin_calls[c].pc = "fetching"
    /\ IF r.status # NetworkError /\ raise_for_status(r.status)
       THEN /\ admin_calls' = [admin_calls EXCEPT ![c].pc = "done",
                                 ![c].outcome = "ERROR_INTERNAL_SERVER_ERROR"]
            /\ UNCHANGED <<cache, nextToken>>
       ELSE IF r.status = NetworkError \/ ~r.has_token
       THEN /\ admin_calls' = [admin_calls EXCEPT ![c].pc = "done",
                                 ![c].outcome = "ERROR_INTERNAL_SERVER_ERROR"]
            /\ cache' = [cache EXCEPT !.token = NoAdminToken]
            /\ UNCHANGED nextToken
       ELSE /\ nextToken <= MaxTokens
            /\ cache' = [token |-> nextToken,
                         expires_at |-> clock +
                            (IF r.expires_in = NoExpiresIn THEN DefaultExpiresIn
                             ELSE r.expires_in)]
            /\ nextToken' = nextToken + 1
            /\ admin_calls' = [admin_calls EXCEPT ![c].pc = "requesting",
                                 ![c].token = nextToken, ![c].source = "fetch"]
    /\ UNCHANGED <<clock, rejected>>

\* The admin API answers without 401 and 403 clearing the cache
AdminRespondedKeepsToken(c, status) ==
    /\ admin_calls[c].pc = "requesting"
    /\ admin_calls' = [admin_calls EXCEPT ![c].pc = "done", ![c].status = status,
                         ![c].outcome = IF status \in Success THEN "returned"
                                        ELSE "raised"]
    /\ rejected' = IF status \in {401, 403}
                   THEN rejected \cup {admin_calls[c].token} ELSE rejected
    /\ UNCHANGED <<clock, cache, nextToken>>

\* The admin API answers (lines 112-130): 401 and 403 clear
\* self._admin_token before the error is raised again
AdminResponded(c, status) ==
    /\ admin_calls[c].pc = "requesting"
    /\ admin_calls' = [admin_calls EXCEPT ![c].pc = "done", ![c].status = status,
                         ![c].outcome = IF status \in Success THEN "returned"
                                        ELSE "raised"]
    /\ rejected' = IF status \in {401, 403}
                   THEN rejected \cup {admin_calls[c].token} ELSE rejected
    /\ cache' = IF status \in {401, 403}
                THEN [cache EXCEPT !.token = NoAdminToken] ELSE cache
    /\ UNCHANGED <<clock, nextToken>>

\* The caller takes the result.
AdminReap(c) ==
    /\ admin_calls[c].pc = "done"
    /\ admin_calls' = [admin_calls EXCEPT ![c] = IdleAdminCall]
    /\ UNCHANGED <<clock, cache, nextToken, rejected>>

ClockTick ==
    /\ clock + ClockStep <= MaxClock
    /\ clock' = clock + ClockStep
    /\ UNCHANGED <<cache, nextToken, rejected, admin_calls>>

AdminNext ==
    \/ \E c \in Callers : AdminRequest(c)
    \/ \E c \in Callers, r \in AdminTokenResponses : AdminTokenFetched(c, r)
    \/ \E c \in Callers, status \in AdminStatuses : AdminResponded(c, status)
    \/ \E c \in Callers : AdminReap(c)
    \/ ClockTick

\* ======================================================================
\* AuthService.register
\* ======================================================================
VARIABLES
    idp_users,      \* the usernames the identity provider holds
    local_users,    \* the usernames the local repository holds
    register_call   \* the register call in progress

rgvars == <<idp_users, local_users, register_call>>

IdleRegister == [pc |-> "idle", username |-> "", outcome |-> "none"]

\* register is called: the two lookups of the local repository; a user that
\* exists is refused, for any other create_user of the Keycloak service is
\* called
Register(username) ==
    /\ register_call.pc = "idle"
    /\ create_call.pc = "idle"
    /\ IF username \in local_users
       THEN /\ register_call' = [pc |-> "done", username |-> username,
                                 outcome |-> "ERROR_USER_ALREADY_EXISTS"]
            /\ UNCHANGED kcvars
       ELSE /\ register_call' = [pc |-> "creating", username |-> username,
                                 outcome |-> "none"]
            /\ CreateUser(username)
    /\ UNCHANGED <<idp_users, local_users>>

\* the token endpoint answers the create_user call of register
RegisterTokenFetched(r) ==
    /\ register_call.pc = "creating"
    /\ TokenFetched(r)
    /\ UNCHANGED rgvars

\* The users endpoint answers: it creates the user with a success status,
\* answers 409 only for a username it holds, and may have processed
\* (processed) a request whose response never arrived.
RegisterUserResponded(r, processed) ==
    /\ register_call.pc = "creating"
    /\ r.status = 409 => register_call.username \in idp_users
    /\ r.status \in Success => register_call.username \notin idp_users
    /\ processed => (r.status = NetworkError
                        /\ register_call.username \notin idp_users)
    /\ UserResponded(r)
    /\ idp_users' = IF r.status \in Success \/ processed
                    THEN idp_users \cup {register_call.username}
                    ELSE idp_users
    /\ UNCHANGED <<local_users, register_call>>

\* create_user has returned the sub or raised: lines 36-41, the local
\* record is created only after a sub was returned
RegisterStore ==
    /\ register_call.pc = "creating"
    /\ create_call.pc = "done"
    /\ IF create_call.outcome = "returned"
       THEN /\ local_users' = local_users \cup {register_call.username}
            /\ register_call' = [register_call EXCEPT !.pc = "done",
                                                      !.outcome = "SUCCESS"]
       ELSE /\ register_call' = [register_call EXCEPT
                                    !.pc = "done", !.outcome = create_call.outcome]
            /\ UNCHANGED local_users
    /\ UNCHANGED <<idp_users, kcvars>>

\* The caller takes the result.
RegisterReap ==
    /\ register_call.pc = "done"
    /\ register_call' = IdleRegister
    /\ create_call' = IdleCreate
    /\ UNCHANGED <<idp_users, local_users, admin_token>>

RegisterNext ==
    \/ \E username \in Usernames : Register(username)
    \/ \E r \in TokenResponses : RegisterTokenFetched(r)
    \/ \E r \in UserResponses, processed \in BOOLEAN :
          RegisterUserResponded(r, processed)
    \/ RegisterStore
    \/ RegisterReap
    \/ TokenAges /\ UNCHANGED rgvars

\* ======================================================================
\* websocket_endpoint (main.py)
\* ======================================================================
MaxMessages == 1
EndpointPairs == 1      \* token pairs issued while endpoints are observed

VARIABLES
    endpoints   \* per handle: the websocket_endpoint task that owns it

epvars == <<endpoints>>

\* pc: "none" (no client yet), "receiving" (suspended in receive_json) or
\* "ended"; access_token: the cookie the socket came with; user: the
\* user_id it was registered under; received: the messages read so far;
\* how: the way the task ended
NoEndpoint ==
    [pc |-> "none", access_token |-> NoneToken, user |-> NoUser,
     received |-> 0, how |-> "none"]

\* The endpoint that reads the claims of the cookie without validate_token
WsOpenUnverified(ws, access_token) ==
    /\ endpoints[ws].pc = "none"
    /\ \A w \in Handles : w < ws => endpoints[w].pc # "none"
    /\ ~Registered(connections, ws)
    /\ LET token_data == access_token.payload
       IN  IF token_data = NoClaims
           THEN /\ endpoints' = [endpoints EXCEPT ![ws] =
                       [NoEndpoint EXCEPT !.pc = "ended", !.how = "refused",
                                          !.access_token = access_token]]
                /\ UNCHANGED connections
           ELSE /\ connections' = ConnectOp(connections, ws, token_data.sub)
                /\ endpoints' = [endpoints EXCEPT ![ws] =
                       [NoEndpoint EXCEPT !.pc = "receiving",
                                          !.access_token = access_token,
                                          !.user = token_data.sub]]

\* The endpoint is called for a new socket (sockets are numbered in the
\* order they arrive) with the access_token cookie, None when there is
\* none.  When validate_token returns None the socket is closed and the
\* task returns; otherwise connect registers the handle under sub and the
\* receive loop is entered.
WsOpen(ws, access_token) ==
    /\ endpoints[ws].pc = "none"
    /\ \A w \in Handles : w < ws => endpoints[w].pc # "none"
    /\ ~Registered(connections, ws)
    /\ LET token_data == ValidateToken(access_token, now).claims
       IN  IF token_data = NoClaims
           THEN /\ endpoints' = [endpoints EXCEPT ![ws] =
                       [NoEndpoint EXCEPT !.pc = "ended", !.how = "refused",
                                          !.access_token = access_token]]
                /\ UNCHANGED connections
           ELSE /\ connections' = ConnectOp(connections, ws, token_data.sub)
                /\ endpoints' = [endpoints EXCEPT ![ws] =
                       [NoEndpoint EXCEPT !.pc = "receiving",
                                          !.access_token = access_token,
                                          !.user = token_data.sub]]

\* receive_json returns a message: the loop goes on
WsReceive(ws) ==
    /\ endpoints[ws].pc = "receiving"
    /\ endpoints[ws].received < MaxMessages
    /\ endpoints' = [endpoints EXCEPT ![ws].received = @ + 1]
    /\ UNCHANGED connections

\* receive_json raises an Exception: WebSocketDisconnect when the client
\* has closed, or the error of a frame that is not JSON; "except Exception"
\* calls disconnect
WsRaises(ws, how) ==
    /\ endpoints[ws].pc = "receiving"
    /\ connections' = DisconnectOp(connections, ws)
    /\ endpoints' = [endpoints EXCEPT ![ws].pc = "ended", ![ws].how = how,
                                      ![ws].received = 0]

\* The task is cancelled while it is suspended in receive_json:
\* asyncio.CancelledError is a BaseException, which "except Exception" does
\* not catch
WsCancelled(ws) ==
    /\ endpoints[ws].pc = "receiving"
    /\ endpoints' = [endpoints EXCEPT ![ws].pc = "ended",
                                      ![ws].how = "cancelled",
                                      ![ws].received = 0]
    /\ UNCHANGED connections

EndpointStep(ws) ==
    \/ \E access_token \in Presentable : WsOpen(ws, access_token)
    \/ WsReceive(ws)
    \/ \E how \in {"closed", "error"} : WsRaises(ws, how)
    \/ WsCancelled(ws)

\* ======================================================================
\* TokenService.get_token_payload
\* ======================================================================
VARIABLES
    payload_call    \* the last get_token_payload call: token, time, answer

pvars == <<payload_call>>

NoPayloadCall == [token |-> NoneToken, at |-> 0, result |-> NoClaims]

\* get_token_payload at time t: jwt.decode(token, self.secret_key,
\* algorithms=[self.algorithm]) with the default options, which verify the
\* signature and exp; any exception is printed and None (NoClaims) returned
get_token_payload(tok, t) ==
    LET d == Decode(tok, SECRET, {ALGORITHM}, t)
    IN  IF d.err = "none" THEN d.claims ELSE NoClaims

GetTokenPayload(tok) ==
    /\ payload_call' = [token |-> tok, at |-> now,
                        result |-> get_token_payload(tok, now)]

PayloadNext ==
    \/ \E tok \in Presentable : GetTokenPayload(tok) /\ UNCHANGED authvars
    \/ \E sub \in Subjects :
          /\ nextJti < 2 * EndpointPairs
          /\ Issue(sub)
          /\ UNCHANGED pvars
    \/ Tick /\ UNCHANGED pvars

\* The variables of the parts that follow the registry and get_current_user,
\* and their values while those parts are not run.
morevars == <<ttlvars, originvars, kcvars, epvars, pvars, rgvars, tkvars>>

MoreInit ==
    /\ service = NoService
    /\ claimset = NoPayload
    /\ origin_call = NoOriginCall
    /\ admin_token = "none"
    /\ create_call = IdleCreate
    /\ endpoints = [ws \in Handles |-> NoEndpoint]
    /\ payload_call = NoPayloadCall
    /\ idp_users = {}
    /\ local_users = {}
    /\ register_call = IdleRegister
    /\ clock = 0
    /\ cache = [token |-> NoAdminToken, expires_at |-> 0]
    /\ nextToken = 1
    /\ rejected = {}
    /\ admin_calls = [c \in Callers |-> IdleAdminCall]

vars == <<connections, tasks, now, nextJti, minted, repo, rotCount, req,
          ALLOW_ORIGINS, whole, calls, msg, inbox, threads, morevars>>

Init ==
    /\ RegInit /\ HistInit /\ AuthInit
    /\ ALLOW_ORIGINS = <<AppOrigin>>
    /\ threads = IdleThreads
    /\ MoreInit

SpecThreads ==
    Init /\ [][ThreadNext
                /\ UNCHANGED <<tasks, authvars, ALLOW_ORIGINS, histvars, morevars>>]_vars

\* The token generators of a TokenService constructed with any lifetimes.
TTLInit ==
    /\ RegInit /\ HistInit /\ AuthInit
    /\ ALLOW_ORIGINS = <<AppOrigin>>
    /\ threads = IdleThreads
    /\ service \in {TokenService(SECRET, ALGORITHM, m, d) :
                       m \in Lifetimes, d \in Lifetimes}
    /\ claimset = NoPayload
    /\ origin_call = NoOriginCall
    /\ admin_token = "none"
    /\ create_call = IdleCreate
    /\ endpoints = [ws \in Handles |-> NoEndpoint]
    /\ payload_call = NoPayloadCall
    /\ idp_users = {}
    /\ local_users = {}
    /\ register_call = IdleRegister
    /\ clock = 0
    /\ cache = [token |-> NoAdminToken, expires_at |-> 0]
    /\ nextToken = 1
    /\ rejected = {}
    /\ admin_calls = [c \in Callers |-> IdleAdminCall]

SpecTTL ==
    TTLInit /\ [][TTLNext
                   /\ UNCHANGED <<regvars, nextJti, minted, repo, rotCount, req,
                                  ALLOW_ORIGINS, histvars, threads,
                                  originvars, kcvars, epvars, pvars,
                               rgvars, tkvars>>]_vars

\* get_origin_from_request under every allow-list Settings yields.
OriginInit ==
    /\ RegInit /\ HistInit /\ AuthInit
    /\ ALLOW_ORIGINS \in {split_origins(v) : v \in OriginSettings}
    /\ threads = IdleThreads
    /\ service = NoService
    /\ claimset = NoPayload
    /\ origin_call = NoOriginCall
    /\ admin_token = "none"
    /\ create_call = IdleCreate
    /\ endpoints = [ws \in Handles |-> NoEndpoint]
    /\ payload_call = NoPayloadCall
    /\ idp_users = {}
    /\ local_users = {}
    /\ register_call = IdleRegister
    /\ clock = 0
    /\ cache = [token |-> NoAdminToken, expires_at |-> 0]
    /\ nextToken = 1
    /\ rejected = {}
    /\ admin_calls = [c \in Callers |-> IdleAdminCall]

SpecOrigin ==
    OriginInit /\ [][OriginNext
                      /\ UNCHANGED <<regvars, authvars, histvars, threads,
                                     ttlvars, kcvars, epvars, pvars,
                               rgvars, tkvars>>]_vars

\* create_user of a KeycloakAdminService that was constructed.
SpecCreate ==
    Init /\ [][CreateNext
                /\ UNCHANGED <<regvars, authvars, ALLOW_ORIGINS, histvars,
                               threads, ttlvars, originvars, epvars, pvars,
                               rgvars, tkvars>>]_vars

\* The websocket endpoint tasks, one per handle, the login service that
\* issues the tokens they come with, and the clock.
EndpointNext ==
    \/ \E ws \in Handles :
          EndpointStep(ws) /\ UNCHANGED <<tasks, authvars>>
    \/ \E sub \in Subjects :
          /\ nextJti < 2 * EndpointPairs
          /\ Issue(sub)
          /\ UNCHANGED <<regvars, epvars>>
    \/ Tick /\ UNCHANGED <<regvars, epvars>>

SpecEndpoint ==
    Init /\ [][EndpointNext
                /\ UNCHANGED <<ALLOW_ORIGINS, histvars, threads, ttlvars,
                               originvars, kcvars, pvars,
                               rgvars, tkvars>>]_vars

\* register of an AuthService whose Keycloak service was constructed, one
\* call at a time.
SpecRegister ==
    Init /\ [][RegisterNext
                /\ UNCHANGED <<regvars, authvars, ALLOW_ORIGINS, histvars,
                               threads, ttlvars, originvars, epvars, pvars,
                               tkvars>>]_vars

\* The admin token cache under concurrent admin requests and the clock.
SpecAdmin ==
    Init /\ [][AdminNext
                /\ UNCHANGED <<regvars, authvars, ALLOW_ORIGINS, histvars,
                               threads, ttlvars, originvars, kcvars, epvars,
                               pvars, rgvars>>]_vars

\* get_token_payload applied to the tokens a client can hold, at every time.
SpecPayload ==
    Init /\ [][PayloadNext
                /\ UNCHANGED <<regvars, ALLOW_ORIGINS, histvars, threads,
                               ttlvars, originvars, kcvars, epvars,
                               rgvars, tkvars>>]_vars

\* The registry with one caller of send_to_user, broadcast and
\* push_task_to_users at a time.
SpecReg ==
    Init /\ [][RegStep(OneCaller)
                /\ UNCHANGED <<authvars, ALLOW_ORIGINS, histvars, threads, morevars>>]_vars

SpecAuth ==
    Init /\ [][AuthNext /\ UNCHANGED <<regvars, ALLOW_ORIGINS, histvars, threads, morevars>>]_vars

\* broadcast with one caller, clients that connect between the calls and
\* disconnect at any time, and the handles registered during each call.
BcastNext ==
    \/ \E ws \in Handles, u \in Users :
          (\A t \in Tasks : tasks[t].pc = "idle") /\ Connect(ws, u)
    \/ \E ws \in Handles : Disconnect(ws)
    \/ \E t \in OneCaller : BroadcastStart(t)
    \/ \E t \in OneCaller, ok \in BOOLEAN : BroadcastResume(t, ok)
    \/ \E t \in OneCaller : Reap(t)

SpecBcast ==
    Init /\ [][BcastNext /\ WholeStep
                /\ UNCHANGED <<authvars, ALLOW_ORIGINS, calls, msg, inbox, threads, morevars>>]_vars

\* Overlapping send_to_user and broadcast calls, MaxCalls of them, over
\* handles that are connected once and before the calls, and the order of
\* the messages per handle.
MaxCalls == 2

\* Every set iterator yields the handles of a set in the same order, the
\* ascending one: two walks over the same set never differ in their order.
SameOrder ==
    \A t \in Tasks :
        tasks'[t].pc = "suspended" =>
            \A h \in tasks'[t].pending : tasks'[t].cur < h

OrderNext ==
    \/ \E ws \in Handles, u \in Users :
          /\ calls = 0
          /\ ~Registered(connections, ws)
          /\ Connect(ws, u)
          /\ UNCHANGED histvars
    \/ \E t \in Tasks, u \in Users :
          calls < MaxCalls /\ SendStart(t, u) /\ Began(t) /\ UNCHANGED whole
    \/ \E t \in Tasks :
          calls < MaxCalls /\ BroadcastStart(t) /\ Began(t) /\ UNCHANGED whole
    \/ \E t \in Tasks, ok \in BOOLEAN :
          SendResume(t, ok) /\ Moved(t) /\ UNCHANGED whole
    \/ \E t \in Tasks, ok \in BOOLEAN :
          BroadcastResume(t, ok) /\ Moved(t) /\ UNCHANGED whole
    \/ \E t \in Tasks : Reap(t) /\ Taken(t) /\ UNCHANGED whole

SpecOrder ==
    Init /\ [][OrderNext /\ SameOrder
                /\ UNCHANGED <<authvars, ALLOW_ORIGINS, threads, morevars>>]_vars

\* ------------------------------------------------- the endpoints of the API
\* AuthService.login(email, password): the pair of a user of the repository
\* who gave the right password, else an exception.
login_service(users, sub, password_ok, t, j) ==
    IF sub \in users /\ password_ok
    THEN [exc |-> "none", tokens |-> generate_token_pair(sub, t, j)]
    ELSE [exc |-> "HTTPException", tokens |-> NoPair]

\* POST /login when auth_service.login has returned or raised: the two
\* cookies are set for request.headers.get("origin"); an exception of
\* set_cookie leaves the endpoint as it is.
Login(r, sub, password_ok, origin) ==
    /\ req[r].pc = "idle"
    /\ nextJti + 1 <= 2 * MaxPairs
    /\ LET l == login_service(repo, sub, password_ok, now, nextJti)
           k == [IdleReq EXCEPT !.pc = "done", !.path = "login", !.endpoint = "login",
                                !.origin = origin, !.tokens = l.tokens]
           c1 == set_cookie({}, "access_token", origin)
           c2 == set_cookie(c1.cookies, "refresh_token", origin)
           e == error_exception_handler("FORBIDDEN", {})
       IN  IF l.exc # "none"
           THEN /\ req' = [req EXCEPT ![r] =
                      [k EXCEPT !.cause = "login", !.outcome = l.exc,
                                !.status = "UNAUTHORIZED"]]
                /\ UNCHANGED <<nextJti, minted>>
           ELSE /\ nextJti' = nextJti + 2
                /\ minted' = minted \cup {l.tokens.access_token, l.tokens.refresh_token}
                /\ req' = [req EXCEPT ![r] =
                      IF c1.exc # "none"
                      THEN [k EXCEPT !.tried = {"access_token"}, !.cause = "FORBIDDEN",
                                     !.outcome = e.exc, !.status = ResponseStatus(e)]
                      ELSE [k EXCEPT !.tried = {"access_token", "refresh_token"},
                                     !.cookies = c2.cookies,
                                     !.outcome = "returned", !.status = "OK"]]
    /\ UNCHANGED <<now, repo, rotCount>>

\* clear_cookie(response): both cookies are deleted
clear_cookie(k) == [k EXCEPT !.cleared = TRUE]

\* POST /logout: the endpoint runs when its dependency get_current_user has
\* returned (a user or None); it clears the cookies.
Logout(r) ==
    /\ req[r].pc = "done"
    /\ req[r].endpoint = "none"
    /\ req[r].outcome = "returned"
    /\ req' = [req EXCEPT ![r] = [clear_cookie(req[r]) EXCEPT !.endpoint = "logout"]]
    /\ UNCHANGED <<now, nextJti, minted, repo, rotCount>>

WebInit ==
    /\ RegInit /\ HistInit /\ AuthInit
    /\ ALLOW_ORIGINS \in AllowLists
    /\ threads = IdleThreads
    /\ MoreInit

WebNext ==
    \/ \E r \in Reqs : req[r].pc = "idle" /\ \E c \in CookieCases : GcuStart(r, c[1], c[2])
    \/ \E r \in Reqs, h \in HeaderCases : GcuRotated(r, h)
    \/ \E r \in Reqs : GcuFound(r)
    \/ \E r \in Reqs : GcuReap(r)
    \/ \E r \in Reqs, sub \in Subjects, ok \in BOOLEAN, h \in HeaderCases :
          Login(r, sub, ok, h.origin)
    \/ \E r \in Reqs : Logout(r)
    \/ Tick

SpecWeb ==
    WebInit /\ [][WebNext /\ UNCHANGED <<regvars, ALLOW_ORIGINS, histvars, threads, morevars>>]_vars

\* --------------------------------------------------- token properties
Claims(tok) == ValidateToken(tok, now).claims

AccessTokens == {tok \in minted : tok.payload.role = "USER"}
RefreshTokens == {tok \in minted : tok.payload.role = "none"}

\* C5: get_current_user never returns a user on the strength of a refresh
\* token presented in the access_token cookie: a call that validated its
\* access_token cookie and returned validated the claims of an access token.
C5_RefreshTokenDoesNotAuthenticate ==
    \A r \in Reqs :
        (req[r].pc = "done" /\ req[r].outcome = "returned" /\ req[r].path = "direct")
            => req[r].claims.role # "none"

\* C6: an issued token validates exactly while now < exp, and one that has
\* failed validation never validates again, whatever happens in between.
C6_ValidIffUnexpired ==
    /\ [](\A tok \in minted :
            (Claims(tok) # NoClaims) <=> (now < tok.payload.exp * TicksPerSec))
    /\ [][\A tok \in minted :
            (Claims(tok) = NoClaims) => (ValidateToken(tok, now').claims = NoClaims)]_vars

\* An access token is at the instant of its expiry while a call that found
\* no claims in its access_token cookie is on the way.
C6_Witness ==
    \E r \in Reqs, tok \in AccessTokens :
        /\ req[r].pc = "rotating"
        /\ now = tok.payload.exp * TicksPerSec
        /\ Claims(tok) = NoClaims

\* C7: validate_token returns None and does not raise for no token, a
\* malformed string, a token signed with another secret, and a token whose
\* header names another algorithm (and for any other token not issued).
C7_ForgedYieldsNone ==
    \A tok \in Presentable \ minted :
        ValidateToken(tok, now) = [raised |-> "none", claims |-> NoClaims]

\* A call has had its refresh token rejected for the algorithm in its header.
C7_Witness ==
    \E r \in Reqs : req[r].pc = "done" /\ req[r].rot = "InvalidAlgorithmError"

\* C8: when the refresh token is absent, forged or expired, get_current_user
\* ends with the Unauthorized outcome and no cookie is set on the response.
C8_BadRefreshIsUnauthorized ==
    \A r \in Reqs :
        (req[r].pc = "done" /\ req[r].rot \in {"absent"} \cup InvalidTokenErrors)
            => (req[r].status = "UNAUTHORIZED" /\ req[r].cookies = {})

\* C9: an issued access token validates at once with the subject it was
\* issued for, validates no more once the access TTL has passed, and a
\* rotation of the refresh token yields a complete pair for the same subject
\* whose token ids are those of no token issued before.
C9_IssueExpireRotate ==
    /\ \A tok \in AccessTokens :
          /\ (Timestamp(now) = tok.payload.iat) => (Claims(tok).sub = tok.payload.sub)
          /\ (now >= (tok.payload.iat + AccessTTL) * TicksPerSec)
                => (Claims(tok) = NoClaims)
    /\ \A r \in Reqs :
          req[r].rot = "minted" =>
            LET new == req[r].tokens
                old == req[r].refresh
            IN  /\ new.access_token \in AccessTokens
                /\ new.refresh_token \in RefreshTokens
                /\ new.access_token.payload.sub = old.payload.sub
                /\ new.refresh_token.payload.sub = old.payload.sub
                /\ \A tok \in minted \ {new.access_token, new.refresh_token} :
                      tok.payload.jti \notin {new.access_token.payload.jti,
                                              new.refresh_token.payload.jti}

\* A rotation has yielded a pair after the access TTL of the pair of the
\* refresh token had passed.
C9_Witness ==
    \E r \in Reqs :
        /\ req[r].rot = "minted"
        /\ now >= (req[r].refresh.payload.iat + AccessTTL) * TicksPerSec
        /\ \E tok \in AccessTokens :
              /\ tok.payload.jti + 1 = req[r].refresh.payload.jti
              /\ Claims(tok) = NoClaims

\* C10: a refresh token yields a pair at most once.
C10_ConsumedNotReusable ==
    \A j \in DOMAIN rotCount : rotCount[j] <= 1

\* ------------------------------------------------ endpoint properties
\* The origin is an entry of the configured allow-list, or the list has "*".
OriginPermitted(origin) ==
    \E i \in DOMAIN ALLOW_ORIGINS : ALLOW_ORIGINS[i] \in {origin, Star}

\* C11: set_cookie sets a cookie on the response only for an origin that is
\* an entry of the allow-list or under an allow-list with "*"; for any other
\* origin, an absent one too, it raises Forbidden and the response is left
\* without the cookie: no response has a cookie for an origin not allowed.
C11_CookieOnlyForAllowedOrigin ==
    \A r \in Reqs :
        LET k == req[r]
        IN  /\ k.cookies \subseteq k.tried
            /\ \A key \in k.tried :
                  IF OriginPermitted(k.origin)
                  THEN key \in k.cookies
                  ELSE key \notin k.cookies /\ k.cause = "FORBIDDEN"

\* A login without Origin header under an allow-list without "*" was refused.
C11_Witness ==
    \E r \in Reqs :
        /\ req[r].path = "login"
        /\ req[r].tried # {}
        /\ req[r].origin = NoHeader
        /\ Star \notin SeqToSet(ALLOW_ORIGINS)
        /\ req[r].cookies = {}

\* C12: every authentication failure of get_current_user (no cookie, a
\* forged or expired access token without refresh token, a rejected
\* rotation) ends with the one Unauthorized outcome, whatever its cause, and
\* with no outcome of another class.
C12_AuthFailureIsUnauthorized ==
    \A r \in Reqs :
        (req[r].pc = "done"
            /\ req[r].cause \in {"no refresh_token", "no tokens", "no claims"})
            => (req[r].outcome = "HTTPException" /\ req[r].status = "UNAUTHORIZED")

\* C13: a request in which set_cookie refused the origin, at login or after
\* a rotation in get_current_user, ends with the Forbidden outcome.
C13_RefusedOriginIsForbidden ==
    \A r \in Reqs :
        (req[r].pc = "done" /\ req[r].cause = "FORBIDDEN")
            => req[r].status = "FORBIDDEN"

\* The same for login alone, where nothing catches the exception of
\* set_cookie.
LoginRefusedOriginIsForbidden ==
    \A r \in Reqs :
        (req[r].pc = "done" /\ req[r].path = "login" /\ req[r].cause = "FORBIDDEN")
            => req[r].status = "FORBIDDEN"

\* C14: a request that ends without valid access token and without usable
\* refresh token (absent, or rejected by the rotation), and every logout,
\* has cleared both cookies on its response.
C14_FailureAndLogoutClearCookies ==
    \A r \in Reqs :
        (req[r].pc = "done"
            /\ (req[r].rot \in {"absent"} \cup InvalidTokenErrors
                  \/ req[r].endpoint = "logout"))
            => req[r].cleared

\* The part of it the code keeps: logout and the rejected rotation.
LogoutAndRejectedRotationClear ==
    \A r \in Reqs :
        (req[r].pc = "done"
            /\ (req[r].rot \in InvalidTokenErrors \/ req[r].endpoint = "logout"))
            => req[r].cleared

\* ------------------------------------------------- delivery properties
\* C16: of two messages pushed by calls of send_to_user or broadcast, the
\* one whose call began first comes first at every handle that gets both,
\* also when the calls overlap and the user has several handles.
C16_PerHandleCallOrder ==
    \A h \in Handles :
        \A i, j \in DOMAIN inbox[h] : i < j => inbox[h][i] <= inbox[h][j]

\* ------------------------------------------------ properties under threads
\* C17: with connect and disconnect running in parallel threads, a call of
\* get_online_users or count_all_connections never raises, and what it
\* returns is what the dict stood for at some moment of the call.
C17_ReadsAreSerializable ==
    /\ threads.r.pc # "raised"
    /\ threads.r.pc = "returned" => threads.r.val \in threads.r.seen

\* C18: once a connect(h, u) and the disconnect of another handle that ran
\* beside it have both completed, connect has not raised and h is in the set
\* stored under u.
C18_ConnectSurvivesDisconnect ==
    (/\ threads.c.pc \in Completed
     /\ threads.d.pc \in {"idle", "returned"}
     /\ threads.d.ws # threads.c.ws)
        => /\ threads.c.pc = "returned"
           /\ HasKey(connections, threads.c.user)
           /\ threads.c.ws \in SetOf(connections, threads.c.user)

\* ------------------------------------------------------- disconnect frame
\* handle h is in the set stored under user u
Member(c, u, h) == HasKey(c, u) /\ h \in SetOf(c, u)

\* C19: after disconnect(h) the handle is in no user's set and the
\* membership of every other handle is as before; a handle that was not
\* registered leaves the registry as it was; after connect(h, u) on the
\* empty registry, disconnect(h) leaves get_online_users() without u and
\* count_all_connections() at 0.
C19_DisconnectFrame ==
    [][\A h \in Handles :
          Disconnect(h) =>
             /\ ~Registered(connections', h)
             /\ \A u \in Users, g \in Handles \ {h} :
                   Member(connections', u, g) <=> Member(connections, u, g)
             /\ ~Registered(connections, h) => connections' = connections
             /\ \A u \in Users :
                   connections = <<[user |-> u, ws |-> {h}]>> =>
                      /\ ~HasKey(connections', u)
                      /\ SumLen(connections') = 0]_regvars

\* ------------------------------------------------------- issued pairs
\* C20: generate_token_pair(user) yields an access and a refresh token that
\* both carry the user's id as sub, the access token with exp = iat + the
\* access minutes, the refresh token with exp = iat + the refresh days, and
\* with token ids that differ from each other and from those of every token
\* issued before.
C20_PairClaims ==
    [][\A sub \in Subjects :
          Issue(sub) =>
             \E a, r \in minted' \ minted :
                LET ca == ValidateToken(a, now).claims
                    cr == ValidateToken(r, now).claims
                IN  /\ minted' \ minted = {a, r}
                    /\ ca.sub = sub /\ cr.sub = sub
                    /\ ca.exp = ca.iat + AccessTTL
                    /\ cr.exp = cr.iat + RefreshTTL
                    /\ ca.jti # cr.jti
                    /\ \A old \in minted :
                          old.payload.jti \notin {ca.jti, cr.jti}]_authvars

\* A pair was issued after another one and after time had passed.
C20_Witness ==
    \E a \in AccessTokens, r \in RefreshTokens :
        /\ a.payload.jti > 2
        /\ r.payload.jti = a.payload.jti + 1
        /\ a.payload.sub = r.payload.sub
        /\ a.payload.iat > 0
        /\ a.payload.iat = r.payload.iat

\* ------------------------------------------------- minted claim sets
\* C21: whatever lifetimes the TokenService was constructed with, a claim
\* set minted by generate_access_token or generate_refresh_token has
\* exp > iat and a subject that is not empty.
C21_ExpAfterIat ==
    claimset # NoPayload =>
        /\ claimset.exp > claimset.iat
        /\ claimset.sub # <<>>

\* ------------------------------------------------------ resolved origins
\* C22: get_origin_from_request returns the Origin header when the request
\* has one, else scheme://host[:port] of its Referer header when it has one,
\* else the first entry of the allow-list; it returns a value, and does not
\* raise, under every allow-list.
C22_OriginResolution ==
    origin_call.called =>
        LET h == origin_call.request
        IN  /\ origin_call.exc = "none"
            /\ origin_call.origin =
                  IF h.origin # NoHeader THEN h.origin
                  ELSE IF h.referer # NoHeader
                  THEN <<h.referer[1], h.referer[2], h.referer[3]>>
                  ELSE ALLOW_ORIGINS[1]

\* ------------------------------------------------- create_user outcomes
\* C23: a create_user call ends in exactly one outcome: 409 is
\* UserAlreadyExists, 400 is the bad request, every other error status, a
\* failed token fetch, a missing Location header and a network error are
\* the internal server error; it returns a user id only for a successful
\* response with a Location header; it sends each request at most twice.
C23_CreateUserOutcomes ==
    /\ create_call.fetches <= 2 /\ create_call.posts <= 2
    /\ create_call.pc = "done" =>
          LET k == create_call
          IN  /\ k.outcome =
                    IF k.fetch = "failed" THEN "ERROR_INTERNAL_SERVER_ERROR"
                    ELSE IF k.status = 409 THEN "ERROR_USER_ALREADY_EXISTS"
                    ELSE IF k.status = 400 THEN "BAD_REQUEST"
                    ELSE IF k.status \in Errors \cup {NetworkError}
                    THEN "ERROR_INTERNAL_SERVER_ERROR"
                    ELSE IF k.location \in {NoHeader, <<"">>}
                    THEN "ERROR_INTERNAL_SERVER_ERROR"
                    ELSE "returned"
              /\ k.outcome = "returned" =>
                    /\ k.status \in Success
                    /\ k.location # NoHeader
                    /\ k.user_id = k.location[Len(k.location)]
              /\ k.outcome # "returned" => k.user_id = ""

\* A call that fetched a token has ended with the conflict outcome, and
\* the token it fetched is in the cache.
C23_Witness ==
    /\ create_call.pc = "done"
    /\ create_call.fetch = "fetched"
    /\ create_call.status = 409
    /\ create_call.outcome = "ERROR_USER_ALREADY_EXISTS"
    /\ admin_token = "fresh"

\* ------------------------------------------------ rotation and cookies
\* A valid access_token cookie: no rotation, no cookie set or cleared.
DirectTouchesNothing ==
    \A r \in Reqs :
        (req[r].endpoint = "none" /\ req[r].path = "direct") =>
            /\ req[r].rot = "none"
            /\ req[r].cookies = {} /\ req[r].tried = {}
            /\ ~req[r].cleared

\* Rotation is entered only when validate_token gave no claims for the
\* access_token cookie.
RotationOnlyWithoutClaims ==
    \A r \in Reqs :
        (req[r].pc = "idle" /\ req'[r].path = "rotated") =>
            \A c \in CookieCases :
                GcuStart(r, c[1], c[2]) => ValidateToken(c[1], now).claims = NoClaims

\* A rotation that yielded a pair, for a request of a permitted origin, ends
\* with both cookies on the response.
RotationAttachesBoth ==
    \A r \in Reqs :
        (/\ req[r].endpoint = "none" /\ req[r].pc = "done"
         /\ req[r].rot = "minted"
         /\ req[r].origin # NoHeader
         /\ is_allowed_origin(req[r].origin, ALLOW_ORIGINS))
            => req[r].cookies = {"access_token", "refresh_token"}

\* C24: with a valid, unexpired access token get_current_user does not
\* rotate and neither sets nor clears a cookie; it attempts the rotation
\* only after the validation of the access token has returned no claims;
\* after a successful rotation both new cookies are on the response.
C24_RotateOnlyWhenNeeded ==
    /\ [](DirectTouchesNothing /\ RotationAttachesBoth)
    /\ [][RotationOnlyWithoutClaims]_vars

\* ------------------------------------------------------ endpoint cleanup
\* C25: whichever way the receive loop of a registered connection is left
\* (the client closes, receive fails, the task is cancelled), disconnect is
\* called: once the endpoint task has ended its handle is not registered.
C25_EndedIsUnregistered ==
    \A ws \in Handles :
        endpoints[ws].pc = "ended" => ~Registered(connections, ws)

\* ------------------------------------------------- endpoint authentication
\* the one user a handle is registered under
RegisteredUnder(c, h, u) ==
    \A i \in DOMAIN c : h \in c[i].ws <=> c[i].user = u

\* a registered handle came with a token the service issued, unaltered, and
\* is registered under that token's subject and no other user; a refused
\* socket is not registered
RegisteredHasToken ==
    \A ws \in Handles :
        /\ Registered(connections, ws) =>
              /\ endpoints[ws].access_token \in minted
              /\ RegisteredUnder(connections, ws,
                                 endpoints[ws].access_token.payload.sub)
        /\ endpoints[ws].how = "refused" => ~Registered(connections, ws)

\* the step that registers a handle is taken while its token validates, and
\* a socket whose token does not validate is closed in the step that
\* answers it
RegisteredWhenValid ==
    \A ws \in Handles :
        /\ (~Registered(connections, ws) /\ Registered(connections', ws)) =>
              LET v == ValidateToken(endpoints'[ws].access_token, now)
              IN  /\ v.raised = "none"
                  /\ v.claims # NoClaims
                  /\ v.claims.exp * TicksPerSec > now
                  /\ RegisteredUnder(connections', ws, v.claims.sub)
        /\ (endpoints[ws].pc = "none" /\ endpoints'[ws].pc # "none"
              /\ (\/ endpoints'[ws].access_token \notin minted
                  \/ endpoints'[ws].access_token.payload.exp * TicksPerSec <= now)) =>
              /\ endpoints'[ws].pc = "ended"
              /\ endpoints'[ws].how = "refused"
              /\ ~Registered(connections', ws)

\* C26: the endpoint registers a handle only after the access token of its
\* cookie has validated, under the user id equal to the token's subject; a
\* socket whose token is missing, forged or expired is closed and never
\* appears in the registry.
C26_RegisteredOnlyValidated ==
    []RegisteredHasToken /\ [][RegisteredWhenValid]_vars

\* two sockets are registered, a socket with a forged token and a socket
\* with an expired token have been refused
C26_Witness ==
    /\ \E ws \in Handles : endpoints[ws].pc = "receiving"
    /\ \E ws \in Handles :
          /\ endpoints[ws].how = "refused"
          /\ endpoints[ws].access_token.form = "jwt"
          /\ endpoints[ws].access_token \notin minted
    /\ \E ws \in Handles :
          /\ endpoints[ws].how = "refused"
          /\ endpoints[ws].access_token \in minted

\* ------------------------------------------------------- unverified decode
\* C27: get_token_payload decodes without checking expiry: for an expired
\* token with the service's signature it returns the token's claims, not
\* None.
C27_ExpiredStillDecodes ==
    (/\ payload_call.token \in minted
     /\ payload_call.token.payload.exp * TicksPerSec <= payload_call.at)
        => payload_call.result = payload_call.token.payload

\* ------------------------------------------------------ the returned user
\* a call that returns does so with a user of the repository, the subject
\* of the claims validate_token gave
ReturnsExistingUser ==
    \A r \in Reqs :
        (req[r].pc = "finding" /\ req'[r].outcome = "returned") =>
            /\ req'[r].user \in repo
            /\ req'[r].user = req[r].claims.sub

\* a call that finds no user for the subject of valid claims ends
\* Unauthorized
AbsentUserIsUnauthorized ==
    \A r \in Reqs :
        (req[r].pc = "finding" /\ req[r].claims.sub \notin repo
            /\ req'[r].pc = "done") =>
            /\ req'[r].outcome # "returned"
            /\ req'[r].status = "UNAUTHORIZED"

\* C28: whenever get_current_user returns normally it returns an existing
\* user record whose id is the sub of a validated token; when the token is
\* valid and its subject is no longer in the repository the request ends
\* Unauthorized, it does not proceed with an absent user.
C28_ReturnsExistingUser ==
    [][ReturnsExistingUser /\ AbsentUserIsUnauthorized]_vars

\* ------------------------------------------------- cookie re-attachment
\* max_age of the refresh_token cookie: timedelta(days=...) in login,
\* timedelta(minutes=...) of a Settings attribute in the rotation; without
\* the attribute there is no max_age to set a cookie with
NoMaxAge == [defined |-> FALSE, seconds |-> 0]

LoginRefreshMaxAge ==
    IF "REFRESH_TOKEN_EXPIRES_IN_DAYS" \in SettingsFields
    THEN [defined |-> TRUE,
          seconds |-> refresh_token_expires_in_days * MinutesPerDay * SecsPerMinute]
    ELSE NoMaxAge

\* REFRESH_TOKEN_EXPIRES_IN_MINUTES, were it declared, would hold minutes
RotationRefreshMaxAge(minutes) ==
    IF "REFRESH_TOKEN_EXPIRES_IN_MINUTES" \in SettingsFields
    THEN [defined |-> TRUE, seconds |-> minutes * SecsPerMinute]
    ELSE NoMaxAge

\* the response of a finished call that rotated has both cookies or none
BothOrNeither ==
    \A r \in Reqs :
        (req[r].pc = "done" /\ req[r].rot = "minted") =>
            req[r].cookies \in {{}, {"access_token", "refresh_token"}}

\* a call that came to attach the refresh cookie of a rotation gives it the
\* max_age that login gives it
SameRefreshLifetime ==
    \A r \in Reqs :
        (req[r].pc = "done" /\ req[r].rot = "minted"
            /\ "access_token" \in req[r].cookies) =>
            \A minutes \in 0..(refresh_token_expires_in_days * MinutesPerDay) :
                RotationRefreshMaxAge(minutes) = LoginRefreshMaxAge

\* C29: re-attachment after a successful rotation is all-or-nothing: when
\* get_current_user has finished, normally or with an error, the response
\* carries both new cookies or neither, and the refresh cookie has the
\* refresh-token lifetime that login gives it.
C29_ReattachAllOrNothing ==
    BothOrNeither /\ SameRefreshLifetime

\* ------------------------------------------------------------ registration
\* a register call refused for a user the repository holds has sent nothing
\* to the identity provider
RefusedLocallyCallsNothing ==
    (register_call.pc = "done" /\ register_call.username \in local_users
        /\ register_call.outcome = "ERROR_USER_ALREADY_EXISTS"
        /\ create_call.pc = "idle")
        => (create_call.fetches = 0 /\ create_call.posts = 0)

\* C30: after a register call has completed, with success or with an error,
\* a user exists in the identity provider exactly when it exists in the
\* local repository, and a call refused because the user exists locally has
\* made no identity-provider call.
C30_IdpMatchesLocal ==
    /\ register_call.pc = "done" => idp_users = local_users
    /\ RefusedLocallyCallsNothing

\* ---------------------------------------------------- admin token cache
\* the cache never holds a token an admin request was refused with
RejectedIsNotCached ==
    cache.token # NoAdminToken => cache.token \notin rejected

\* A call answers from the cache only with the cached token while it has
\* more than 60 seconds left, and fetches otherwise; a fetched token is one
\* never issued before; the step that takes a 401 or 403 empties the cache.
CacheStep ==
    \A c \in Callers :
        /\ (admin_calls[c].pc = "idle" /\ admin_calls'[c].pc # "idle") =>
              IF cache.token # NoAdminToken
                    /\ cache.expires_at - clock > BufferSeconds
              THEN /\ admin_calls'[c].pc = "requesting"
                   /\ admin_calls'[c].source = "cache"
                   /\ admin_calls'[c].token = cache.token
                   /\ admin_calls'[c].token \notin rejected
                   /\ nextToken' = nextToken
              ELSE admin_calls'[c].pc = "fetching"
        /\ (admin_calls[c].pc = "fetching" /\ admin_calls'[c].pc = "requesting") =>
              /\ admin_calls'[c].source = "fetch"
              /\ admin_calls'[c].token = nextToken
              /\ nextToken' > nextToken
              /\ admin_calls'[c].token \notin rejected
        /\ (admin_calls[c].pc = "requesting" /\ admin_calls'[c].pc = "done"
              /\ admin_calls'[c].status \in {401, 403}) =>
              cache'.token = NoAdminToken

\* C31: _get_admin_token returns the cached token only while it has more
\* than 60 seconds of validity left and fetches a new one otherwise; after
\* an admin API request was refused with 401 or 403 the cached token is
\* discarded, so the next admin request fetches a fresh token and does not
\* reuse the refused one.
C31_AdminTokenCache ==
    []RejectedIsNotCached /\ [][CacheStep]_vars

\* a token was refused, and a later call took another token from the cache
\* while a call that found the cache too old is fetching
C31_Witness ==
    /\ rejected # {}
    /\ \E c \in Callers :
          /\ admin_calls[c].pc = "requesting"
          /\ admin_calls[c].source = "cache"
    /\ \E c \in Callers : admin_calls[c].pc = "fetching"
    /\ cache.token # NoAdminToken
    /\ cache.expires_at - clock <= BufferSeconds

====
